---- MODULE Spec2Model ----
(***************************************************************************)
(* Model of drawable/drawable_element.py: the construction of a tree of    *)
(* DrawableElement objects from a nested configuration document, the       *)
(* resolution of scalar attributes by mode, inheritance from parents,      *)
(* variations, the merge of override fragments, the draw traversal, the    *)
(* sweep files of create_variation_yaml_file, the Variation container and  *)
(* the names of list components.                                           *)
(*                                                                         *)
(* Python strings are sequences of one-character strings, so that          *)
(* startswith / endswith / split / isdigit and the concatenation of names  *)
(* are computed as the code computes them.  A Python dict is the sequence  *)
(* of its items in insertion order.  A Python value carries a tag t.       *)
(***************************************************************************)
EXTENDS Integers, Sequences, FiniteSets, TLC

VARIABLES
    pc,         \* "new", then "built" (__init__ returned) or "failed" (it raised),
                \* then "drawn"; for the merge "flat", "nested", "merged"
    klass,      \* the element types: which redefine draw, which define _draw
    folder,     \* the yaml files of the folder: file name -> document
    params,     \* the params argument given to the root's constructor
    modeler,    \* the modeler argument given to the root's constructor
    heap,       \* the DrawableElement and Variation objects, by object id
    calls,      \* the modeler's record of set_variable calls, in call order
    trace,      \* what construction and drawing did, in order
    error,      \* the exception that ended the last operation, or NoError
    root,       \* object id of the root element, 0 before construction
    base_dict,  \* deep_update: first argument
    update,     \* deep_update: second argument
    merged,     \* deep_update: the value returned (or the exception raised)
    top,        \* the element type the root's constructor is called on
    sweep,      \* create_variation_yaml_file: the variation argument
    written,    \* create_variation_yaml_file: the document written to the file
    mem,        \* the dict and list objects of a document, by address
    dict_at,    \* the address of an element's self._dict_params
    variants,   \* the variation mappings _create_variation handed to the constructor
    group,      \* object id of the Variation the loops and append act on
    loops       \* the for loops running over the Variation: what each has yielded

sweepVars == <<sweep, written>>
memVars == <<mem, dict_at, variants>>
groupVars == <<group, loops>>
vars == <<pc, klass, folder, params, modeler, heap, calls, trace, error, root,
          base_dict, update, merged, top, sweepVars, memVars, groupVars>>

-----------------------------------------------------------------------------
(* Bounds of the model *)

\* number of distinct integer leaves in the documents given to deep_update
MaxLeaf == 2

-----------------------------------------------------------------------------
(* Python values *)

NoneV == [t |-> "none"]
IntV(i) == [t |-> "int", i |-> i]
StrV(s) == [t |-> "str", s |-> s]
MapV(m) == [t |-> "map", m |-> m]
ListV(l) == [t |-> "list", l |-> l]
ErrV(e) == [t |-> "err", e |-> e]
Item(k, v) == [k |-> k, v |-> v]

EmptyMap == MapV(<<>>)
\* a set of choices with "no entry" among them, and the mapping of the pairs
\* for which an entry was chosen
Opt(S) == S \cup {[t |-> "absent"]}
Chosen(pairs) == MapV(SelectSeq(pairs, LAMBDA it : it.v.t # "absent"))
IsErr(v) == v.t = "err"
IsMap(v) == v.t = "map"

\* key in d
HasKey(d, key) == \E i \in 1..Len(d.m) : d.m[i].k = key
\* d[key]
GetItem(d, key) == d.m[CHOOSE i \in 1..Len(d.m) : d.m[i].k = key].v
\* d.get(key, default)
DictGet(d, key, default) == IF HasKey(d, key) THEN GetItem(d, key) ELSE default
\* d[key] = value: an existing key keeps its place, a new key goes last
SetItem(d, key, value) ==
    IF HasKey(d, key)
    THEN MapV([i \in 1..Len(d.m) |->
                 IF d.m[i].k = key THEN Item(key, value) ELSE d.m[i]])
    ELSE MapV(Append(d.m, Item(key, value)))
KeysOf(d) == {d.m[i].k : i \in 1..Len(d.m)}

-----------------------------------------------------------------------------
(* Python strings *)

StartsWith(s, p) == Len(s) >= Len(p) /\ SubSeq(s, 1, Len(p)) = p
EndsWith(s, p) == Len(s) >= Len(p) /\ SubSeq(s, Len(s) - Len(p) + 1, Len(s)) = p
Digits == {"0", "1", "2", "3", "4", "5", "6", "7", "8", "9"}
\* str.isdigit()
IsDigit(s) == Len(s) > 0 /\ \A i \in 1..Len(s) : s[i] \in Digits
DigitVal(c) ==
    CASE c = "0" -> 0 [] c = "1" -> 1 [] c = "2" -> 2 [] c = "3" -> 3
      [] c = "4" -> 4 [] c = "5" -> 5 [] c = "6" -> 6 [] c = "7" -> 7
      [] c = "8" -> 8 [] c = "9" -> 9
\* int(s) for a string of digits
RECURSIVE ParseInt(_)
ParseInt(s) ==
    IF Len(s) = 0 THEN 0
    ELSE 10 * ParseInt(SubSeq(s, 1, Len(s) - 1)) + DigitVal(s[Len(s)])
\* str(i) for i >= 0
DigitChar(d) == CHOOSE c \in Digits : DigitVal(c) = d
RECURSIVE FormatInt(_)
FormatInt(i) ==
    IF i < 10 THEN <<DigitChar(i)>>
    ELSE Append(FormatInt(i \div 10), DigitChar(i % 10))
\* s.split(sep): the pieces between the non-overlapping occurrences of sep,
\* found from the left
RECURSIVE SplitFrom(_, _, _, _)
SplitFrom(s, sep, i, piece) ==
    IF i > Len(s) THEN <<piece>>
    ELSE IF i + Len(sep) - 1 <= Len(s) /\ SubSeq(s, i, i + Len(sep) - 1) = sep
         THEN <<piece>> \o SplitFrom(s, sep, i + Len(sep), <<>>)
         ELSE SplitFrom(s, sep, i + 1, Append(piece, s[i]))
Split(s, sep) == SplitFrom(s, sep, 1, <<>>)

\* the keys of a mapping that end in __<digits>
IndexedKeys(d) ==
    {d.m[i].k : i \in {j \in DOMAIN d.m :
                          IsDigit(Split(d.m[j].k, <<"_", "_">>)[
                                      Len(Split(d.m[j].k, <<"_", "_">>))])}}

-----------------------------------------------------------------------------
(* deep_update and _complete_dict *)

\* hasattr(value, 'get'): of the values a yaml document holds, the mappings
HasGet(value) == value.t = "map"

\* The loop of deep_update from item i of the update on.  base is whatever
\* the caller passed: the recursive call passes base_dict.get(key, {}),
\* which is the base's own value at key when the key is there.
RECURSIVE deep_update_loop(_, _, _)
deep_update_loop(base, items, i) ==
    IF i > Len(items) THEN base
    ELSE LET key == items[i].k
             value == items[i].v
         IN  IF HasGet(value)
             THEN IF ~HasGet(base)
                  THEN ErrV("AttributeError")     \* base_dict.get on a scalar
                  ELSE LET sub == deep_update_loop(
                                      DictGet(base, key, EmptyMap), value.m, 1)
                       IN  IF IsErr(sub) THEN sub
                           ELSE deep_update_loop(SetItem(base, key, sub), items, i + 1)
             ELSE IF ~IsMap(base)
                  THEN ErrV("TypeError")          \* item assignment on a scalar
                  ELSE deep_update_loop(SetItem(base, key, value), items, i + 1)

deep_update(base, upd) == deep_update_loop(base, upd.m, 1)

\* local[path[-1]] = val after local = local.setdefault(k, {}) for each k of
\* path[:-1]; the value returned is the outermost mapping after the stores
RECURSIVE SetPath(_, _, _)
SetPath(local, path, val) ==
    IF Len(path) = 1
    THEN IF ~IsMap(local) THEN ErrV("TypeError") ELSE SetItem(local, path[1], val)
    ELSE IF ~IsMap(local)
         THEN ErrV("AttributeError")              \* setdefault on a scalar
         ELSE LET sub == SetPath(DictGet(local, path[1], EmptyMap), Tail(path), val)
              IN  IF IsErr(sub) THEN sub ELSE SetItem(local, path[1], sub)

RECURSIVE complete_dict_loop(_, _, _)
complete_dict_loop(full_dict, items, i) ==
    IF i > Len(items) THEN full_dict
    ELSE LET next == SetPath(full_dict, Split(items[i].k, <<".">>), items[i].v)
         IN  IF IsErr(next) THEN next ELSE complete_dict_loop(next, items, i + 1)

\* _complete_dict: a key without "." splits into itself alone
_complete_dict(sub_dict) == complete_dict_loop(EmptyMap, sub_dict.m, 1)

-----------------------------------------------------------------------------
(* The element types: the annotations of the classes the tree is built from *)

NumT == [t |-> "num"]                       \* int, float, bool
StrT == [t |-> "str"]
OtherT == [t |-> "other"]                   \* any other plain class
ElemT(cls) == [t |-> "elem", cls |-> cls]   \* a subclass of DrawableElement
VarT(cls) == [t |-> "var", cls |-> cls]     \* Variation[cls]
ListT(of) == [t |-> "list", of |-> of]      \* List[of]
Ann(k, ty) == [k |-> k, ty |-> ty]

k_w == <<"w">>
k_n == <<"n">>
k_g__np == <<"g", "_", "_", "n", "p">>
k_lj__n == <<"l", "j", "_", "_", "n">>
k__gp == <<"_", "g", "p">>
k_qubit == <<"q", "u", "b", "i", "t">>
k_jct == <<"j", "c", "t">>
k_cpl == <<"c", "p", "l">>
k_pad == <<"p", "a", "d">>
k_to_draw == <<"t", "o", "_", "d", "r", "a", "w">>

k_arr == <<"a", "r", "r">>
\* the list attributes of a Vec: a vector, two lists of vectors, a list of numbers
k_pos == <<"p", "o", "s">>
k_pts == <<"p", "t", "s">>
k_dims == <<"d", "i", "m", "s">>
k_cnt == <<"c", "n", "t">>

Classes == {"Chip", "Qubit", "Jct", "Pad", "Arr"}

\* cls.__annotations__, in declaration order
Annotations(cls) ==
    CASE cls = "Chip" ->
           <<Ann(k_w, StrT), Ann(k_qubit, ElemT("Qubit")), Ann(k_g__np, StrT),
             Ann(k_lj__n, StrT), Ann(k_n, NumT), Ann(k_arr, ElemT("Arr")),
             Ann(k__gp, OtherT)>>
      [] cls = "Qubit" ->
           <<Ann(k_cpl, ElemT("Pad")), Ann(k_jct, ElemT("Jct")), Ann(k_w, StrT),
             Ann(k_n, NumT)>>
      [] cls = "Jct" ->
           <<Ann(k_w, StrT), Ann(k_lj__n, StrT), Ann(k_g__np, StrT),
             Ann(k_cpl, ElemT("Pad"))>>
      [] cls = "Pad" ->
           <<Ann(k_w, StrT), Ann(k_n, NumT)>>
      [] cls = "Arr" ->
           <<Ann(k_pad, VarT("Pad")), Ann(k_n, NumT)>>
      [] cls = "Vec" ->
           <<Ann(k_pos, ListT(StrT)), Ann(k_pts, ListT(ListT(StrT))),
             Ann(k_dims, ListT(ListT(StrT))), Ann(k_cnt, ListT(NumT)), Ann(k_w, StrT)>>

IsAnnotated(cls, key) ==
    \E i \in 1..Len(Annotations(cls)) : Annotations(cls)[i].k = key
\* cls.__annotations__[key]
AnnType(cls, key) ==
    Annotations(cls)[CHOOSE i \in 1..Len(Annotations(cls)) :
                         Annotations(cls)[i].k = key].ty

-----------------------------------------------------------------------------
(* The objects and the running state of an operation *)

BoolV(b) == [t |-> "bool", b |-> b]
RefV(id) == [t |-> "ref", id |-> id]            \* a DrawableElement or a Variation
ParsedV(v) == [t |-> "parsed", of |-> v]        \* what parse_entry(v) returned
ModelerV(mode) == [t |-> "modeler", mode |-> mode]

NoError == "NoError"
Ok(st) == st.error = NoError
Emit(st, ev) == [st EXCEPT !.trace = Append(@, ev)]
Raise(st, e) == [Emit(st, [ev |-> "raise", what |-> e]) EXCEPT !.error = e]
Return(st, v) == [st EXCEPT !.ret = v]

\* setattr(self, key, value)
SetAttr(st, self, key, value) ==
    [Emit(st, [ev |-> "setattr", obj |-> self, key |-> key])
        EXCEPT !.heap[self].attrs = SetItem(@, key, value)]

\* a + b for two values: str + str, anything else is a TypeError
StrCat(a, b) == IF a.t = "str" /\ b.t = "str" THEN StrV(a.s \o b.s) ELSE ErrV("TypeError")

\* parse_entry of HFSSdrawpy.utils: a value of its own built from the entry
parse_entry(st, value) ==
    Return(Emit(st, [ev |-> "parse_entry", value |-> value]), ParsedV(value))

\* modeler.set_variable(value, name): the modeler records the variable and
\* returns a handle of its own
set_variable(st, value, name) ==
    LET
        HandleV(n) ==
            [t |-> "handle", call |-> n]      \* what the n-th set_variable returned
    IN
        Return([Emit(st, [ev |-> "set_variable", name |-> name])
                   EXCEPT !.calls = Append(@, [value |-> value, name |-> name])],
               HandleV(Len(st.calls) + 1))

-----------------------------------------------------------------------------
(* Loading the documents *)

dot_yaml == <<".", "y", "a", "m", "l">>

\* _load_dict_from_file
_load_dict_from_file(st, file_path) ==
    IF ~EndsWith(file_path, dot_yaml) THEN Raise(st, "ValueError")
    ELSE IF file_path \notin DOMAIN folder THEN Raise(st, "FileNotFoundError")
    ELSE Return(Emit(st, [ev |-> "read", file |-> file_path]), folder[file_path])

RECURSIVE LoadReferences(_, _, _)
RECURSIVE _load_files(_, _)
RECURSIVE LoadNested(_, _, _)

\* first loop of _load_files: a string value ending in .yaml is replaced by
\* the document of that name
LoadReferences(st, dict_params, i) ==
    LET
        \* dict_params[k] = <what was loaded>, and on to the next item
        ReferenceLoaded(s1) ==
            IF ~Ok(s1) THEN s1
            ELSE LoadReferences(s1, SetItem(dict_params, dict_params.m[i].k, s1.ret), i + 1)
    IN
        IF i > Len(dict_params.m) THEN Return(st, dict_params)
        ELSE IF dict_params.m[i].v.t = "str" /\ EndsWith(dict_params.m[i].v.s, dot_yaml)
             THEN ReferenceLoaded(_load_dict_from_file(st, dict_params.m[i].v.s))
             ELSE LoadReferences(st, dict_params, i + 1)

\* second loop of _load_files: the same for every nested mapping
LoadNested(st, dict_params, i) ==
    LET
        NestedLoaded(s1) ==
            IF ~Ok(s1) THEN s1
            ELSE LoadNested(s1, SetItem(dict_params, dict_params.m[i].k, s1.ret), i + 1)
    IN
        IF i > Len(dict_params.m) THEN Return(st, dict_params)
        ELSE IF IsMap(dict_params.m[i].v)
             THEN NestedLoaded(_load_files(st, dict_params.m[i].v))
             ELSE LoadNested(st, dict_params, i + 1)

_load_files(st, dict_params) ==
    LET
        ReferencesLoaded(s1) == IF ~Ok(s1) THEN s1 ELSE LoadNested(s1, s1.ret, 1)
    IN
        ReferencesLoaded(LoadReferences(st, dict_params, 1))

-----------------------------------------------------------------------------
(* Resolution of the attributes *)

suffix__n == <<"_", "_", "n">>
m_None == <<"N", "o", "n", "e">>
m_gds == <<"g", "d", "s">>
m_hfss == <<"h", "f", "s", "s">>
underscore == <<"_">>

\* the name without the element's name in front
VariableName_bare(st, self, key) == StrV(key)

\* self.name + "_" + key
VariableName(st, self, key) == StrCat(st.heap[self]._name, StrV(underscore \o key))

\* setattr(self, key, <the value the call before returned>)
SetAttrRet(s1, self, key) == SetAttr(s1, self, key, s1.ret)

\* _set_element taking the parent's attribute when the parent has one
_set_element_parent_first(st, self, key, cls_name, value) ==
    IF /\ st.heap[self]._parent # 0
       /\ HasKey(st.heap[st.heap[self]._parent].attrs, key)
    THEN SetAttr(st, self, key, GetItem(st.heap[st.heap[self]._parent].attrs, key))
    ELSE SetAttr(st, self, key, value)

\* _set_element
_set_element(st, self, key, cls_name, value) ==
    IF \/ cls_name.t = "num"
       \/ st.heap[self]._modeler.t = "none"
       \/ EndsWith(key, suffix__n)
    THEN SetAttr(st, self, key, value)
    ELSE IF st.heap[self]._mode = m_gds
    THEN SetAttrRet(parse_entry(st, value), self, key)
    ELSE IF IsErr(VariableName(st, self, key))
    THEN Raise(st, VariableName(st, self, key).e)
    ELSE SetAttrRet(set_variable(st, value, VariableName(st, self, key).s), self, key)

\* the loop of _search_in_parents: copy(self._parent) has the __dict__ and
\* the parent of self._parent itself
RECURSIVE SearchFrom(_, _, _, _)
SearchFrom(st, self, key, local_parent) ==
    LET
        \* key in obj.__dict__, for the attributes set from the annotations
        InDict(obj) == HasKey(st.heap[obj].attrs, key)
    IN
        IF local_parent = 0 THEN Raise(st, "KeyError")
        ELSE IF InDict(local_parent)
             THEN SetAttr(st, self, key, GetItem(st.heap[local_parent].attrs, key))
             ELSE SearchFrom(st, self, key, st.heap[local_parent]._parent)

\* _search_in_parents with the walk started one level too high
_search_in_grandparents(st, self, key) ==
    SearchFrom(st, self, key,
               IF st.heap[st.heap[self]._parent]._parent # 0
               THEN st.heap[st.heap[self]._parent]._parent
               ELSE st.heap[self]._parent)

\* _search_in_parents
_search_in_parents(st, self, key) == SearchFrom(st, self, key, st.heap[self]._parent)

\* hasattr(cls_name, '__origin__'): a subscripted generic
IsGeneric(cls_name) == cls_name.t \in {"var", "list"}

\* the labels of the components of a vector of n_el components
Labels(n_el) ==
    IF n_el < 4 THEN <<(<<"x">>), (<<"y">>), (<<"z">>)>>
    ELSE [n \in 1..n_el |-> FormatInt(n - 1)]

RECURSIVE RegisterFrom(_, _, _, _, _, _, _)
\* the registration of the components of a vector from component n on:
\* zip(labels, value_list) ends with the shorter of the two
RegisterFrom(st, self, value_list, key, index, n, done) ==
    LET
        Registered(s1) ==
            RegisterFrom(s1, self, value_list, key, index, n + 1, Append(done, s1.ret))
    IN
        LET
            \* f"{self.name}_{key}_{index}_{n}" for the n-th label
            ComponentName ==
                st.heap[self]._name.s \o underscore \o key \o underscore \o FormatInt(index)
                    \o underscore \o Labels(Len(value_list.l))[n]
        IN
            LET
                Min(a, b) == IF a < b THEN a ELSE b
            IN
                IF n > Min(Len(value_list.l), Len(Labels(Len(value_list.l))))
                THEN Return(st, ListV(done))
                ELSE Registered(set_variable(st, value_list.l[n],
                                             ComponentName))

RECURSIVE ParseFrom(_, _, _, _)
ParseFrom(st, value_list, n, done) ==
    LET
        Parsed(s1) == ParseFrom(s1, value_list, n + 1, Append(done, s1.ret))
    IN
        IF n > Len(value_list.l) THEN Return(st, ListV(done))
        ELSE Parsed(parse_entry(st, value_list.l[n]))

\* _list_attr; the comprehension over a list of lists passes the position i
\* of the inner list as key and leaves index at its default
RECURSIVE _list_attr(_, _, _, _, _, _)
RECURSIVE ListOfLists(_, _, _, _, _, _)
ListOfLists(st, self, cls_name, value_list, i, done) ==
    LET
        InnerListed(s1) ==
            ListOfLists(s1, self, cls_name, value_list, i + 1, Append(done, s1.ret))
    IN
        IF i > Len(value_list.l) THEN Return(st, ListV(done))
        ELSE InnerListed(_list_attr(st, self, cls_name.of, value_list.l[i],
                                    FormatInt(i - 1), 0))

_list_attr(st, self, cls_name, value_list, key, index) ==
    IF IsGeneric(cls_name) THEN ListOfLists(st, self, cls_name, value_list, 1, <<>>)
    ELSE IF cls_name.t = "num" \/ st.heap[self]._mode = m_None THEN Return(st, value_list)
    ELSE IF st.heap[self]._mode = m_gds THEN ParseFrom(st, value_list, 1, <<>>)
    ELSE RegisterFrom(st, self, value_list, key, index, 1, <<>>)

\* _set_list
_set_list(st, self, key, cls_name, value_list) ==
    SetAttrRet(_list_attr(st, self, cls_name, value_list, key, 0), self, key)

RECURSIVE ParseLoop(_, _, _)
ParseLoop(st, self, i) ==
    LET
        \* what _parse_dict_params does with one annotation
        ParseOne(key, cls_name) ==
            IF HasKey(st.heap[self]._dict_params, key)
            THEN IF IsGeneric(cls_name)
                 THEN IF cls_name.t = "var" THEN st
                      ELSE _set_list(st, self, key, cls_name.of,
                                     GetItem(st.heap[self]._dict_params, key))
                 ELSE IF cls_name.t = "elem" THEN st
                 ELSE _set_element(st, self, key, cls_name,
                                   GetItem(st.heap[self]._dict_params, key))
            ELSE IF ~StartsWith(key, underscore) THEN _search_in_parents(st, self, key)
            ELSE st
    IN
        IF ~Ok(st) \/ i > Len(Annotations(st.heap[self].cls)) THEN st
        ELSE ParseLoop(ParseOne(Annotations(st.heap[self].cls)[i].k, Annotations(st.heap[self].cls)[i].ty),
                       self, i + 1)

\* _parse_dict_params: the attributes it sets ...
_parse_dict_params(st, self) == ParseLoop(st, self, 1)

-----------------------------------------------------------------------------
(* Construction *)

\* the names every DrawableElement has from its class: properties, methods
\* and class attributes
ClassNames ==
    {<<"c", "h", "i", "l", "d", "r", "e", "n">>, <<"p", "a", "r", "e", "n", "t">>,
     <<"n", "a", "m", "e">>, <<"m", "o", "d", "e">>, <<"d", "r", "a", "w">>,
     <<"_", "d", "r", "a", "w">>, k_to_draw}

\* __init__ without its opening check
OverrideCheck_skipped(st, cls) == st

\* The check that opens __init__: type(self).draw is not DrawableElement.draw
OverrideCheck(st, cls) ==
    IF klass[cls].redefines_draw THEN Raise(st, "ImplementationError") ELSE st

\* "None" if self._modeler is None else self._modeler.mode
ModeOf(mdl) ==
    IF mdl.t = "none" THEN StrV(m_None)
    ELSE IF mdl.t = "modeler" THEN StrV(mdl.mode)
    ELSE ErrV("AttributeError")

RECURSIVE NewElement(_, _, _, _, _, _)
RECURSIVE SetChildren(_, _, _, _)
RECURSIVE SetVariations(_, _, _, _)
RECURSIVE ScanVariations(_, _, _)
RECURSIVE _create_variation(_, _, _, _, _)

\* self._name + "_" + attr
ChildName(st, self, attr) == StrCat(st.heap[self]._name, StrV(underscore \o attr))

\* first loop of __init__: the children
SetChildren(st, self, attrs, i) ==
    LET
        \* setattr(self, attr, <the element just built>), and on to the next child
        ChildBuilt(s1) ==
            IF ~Ok(s1) THEN s1
            ELSE SetChildren(SetAttr(s1, self, attrs[i].k, RefV(s1.ret)), self, attrs, i + 1)
    IN
        IF ~Ok(st) \/ i > Len(attrs) THEN st
        ELSE IF IsErr(ChildName(st, self, attrs[i].k))
        THEN Raise(st, ChildName(st, self, attrs[i].k).e)
        ELSE ChildBuilt(NewElement(st, attrs[i].ty.cls,
                                   GetItem(st.heap[self]._dict_params, attrs[i].k),
                                   ChildName(st, self, attrs[i].k),
                                   st.heap[self]._modeler, self))

\* second loop of __init__: the Variation objects, each around its original
SetVariations(st, self, vars_to_set, i) ==
    LET
        \* Variation.__init__ with variation=[]: the public attributes of original
        \* are copied onto the Variation
        NewVariation(st_, original) ==
            Return([st_ EXCEPT !.heap = Append(@,
                        [t |-> "var", variations |-> <<>>, _len |-> 0, _n_iter |-> 0,
                         attrs |-> MapV(SelectSeq(st_.heap[original].attrs.m,
                                                  LAMBDA it : ~StartsWith(it.k, underscore)))])],
                   Len(st_.heap) + 1)
    IN
        LET
            OriginalBuilt(s1) ==
                LET
                    \* setattr(self, attr, Variation(variation=[], original=original))
                    VariationBuilt(s2) ==
                        SetVariations(SetAttr(s2, self, vars_to_set[i].k, RefV(s2.ret)),
                                      self, vars_to_set, i + 1)
                IN
                    IF ~Ok(s1) THEN s1
                    ELSE VariationBuilt(NewVariation(s1, s1.ret))
        IN
            IF ~Ok(st) \/ i > Len(vars_to_set) THEN st
            ELSE IF IsErr(ChildName(st, self, vars_to_set[i].k))
            THEN Raise(st, ChildName(st, self, vars_to_set[i].k).e)
            ELSE OriginalBuilt(NewElement(st, vars_to_set[i].ty.cls,
                                          GetItem(st.heap[self]._dict_params, vars_to_set[i].k),
                                          ChildName(st, self, vars_to_set[i].k),
                                          st.heap[self]._modeler, self))

\* var_key of the scan: splt[0], then "__" + elm for elm in splt[1:-1]
RECURSIVE JoinFrom(_, _, _)
JoinFrom(splt, j, var_key) ==
    IF j > Len(splt) - 1 THEN var_key
    ELSE JoinFrom(splt, j + 1, var_key \o <<"_", "_">> \o splt[j])
VarKey(splt) == JoinFrom(splt, 2, splt[1])

\* self._name + f"_{kv}_{indv}"
VariationName(st, self, kv, indv) ==
    StrCat(st.heap[self]._name,
           StrV(underscore \o kv \o underscore \o FormatInt(indv)))

\* var_lst.append(<the element just built>)
MemberBuilt(s1, var) ==
    LET
        \* Variation.append
        VariationAppend(st, elm) ==
            [st EXCEPT !.heap[var]._len = @ + 1,
                       !.heap[var].variations = Append(@, elm)]
    IN
        IF ~Ok(s1) THEN s1 ELSE VariationAppend(s1, s1.ret)

\* _create_variation
_create_variation(st, self, sub_dict, kv, indv) ==
    LET
        \* getattr(self, kv, None) is None
        AttrIsNone ==
            IF HasKey(st.heap[self].attrs, kv) THEN GetItem(st.heap[self].attrs, kv) = NoneV
            ELSE IF kv = <<"p", "a", "r", "e", "n", "t">> THEN st.heap[self]._parent = 0
            ELSE kv \notin ClassNames
    IN
        LET
            VariationDict(base) ==
                LET
                    \* variation = deepcopy(self._dict_params[kv]), updated with the completed
                    \* sub_dict when there is one
                    Updated(variation_, completed) ==
                        IF IsErr(completed) THEN completed ELSE deep_update(variation_, completed)
                IN
                    IF sub_dict = NoneV THEN base
                    ELSE IF ~IsMap(sub_dict) THEN ErrV("AttributeError")
                    ELSE Updated(base, _complete_dict(sub_dict))
        IN
            LET
                \* The last statement of _create_variation.  The constructor is declared
                \* (folder, params, name, modeler, parent) and is called here with
                \* (folder, variation, modeler, name, parent=self): the modeler arrives as
                \* name and the name as modeler.
                AppendVariation(variation) ==
                    IF IsErr(variation) THEN Raise(st, variation.e)
                    ELSE IF ~(/\ HasKey(st.heap[self].attrs, kv)
                              /\ GetItem(st.heap[self].attrs, kv).t = "ref"
                              /\ st.heap[GetItem(st.heap[self].attrs, kv).id].t = "var")
                    THEN Raise(st, "AttributeError")                     \* var_lst.append
                    ELSE IF ~IsAnnotated(st.heap[self].cls, kv) THEN Raise(st, "KeyError")
                    ELSE IF ~IsGeneric(AnnType(st.heap[self].cls, kv)) THEN Raise(st, "AttributeError")
                    ELSE IF IsErr(VariationName(st, self, kv, indv))
                    THEN Raise(st, VariationName(st, self, kv, indv).e)
                    ELSE MemberBuilt(NewElement(st, AnnType(st.heap[self].cls, kv).cls, variation,
                                                st.heap[self]._modeler,
                                                VariationName(st, self, kv, indv), self),
                                     GetItem(st.heap[self].attrs, kv).id)
            IN
                IF AttrIsNone THEN Raise(st, "ValueError")
                ELSE IF ~HasKey(st.heap[self]._dict_params, kv) THEN Raise(st, "KeyError")
                ELSE AppendVariation(VariationDict(GetItem(st.heap[self]._dict_params, kv)))

\* third loop of __init__: the keys of the slice that end in __<digits>
ScanVariations(st, self, i) ==
    IF ~Ok(st) \/ i > Len(st.heap[self]._dict_params.m) THEN st
    ELSE LET splt == Split(st.heap[self]._dict_params.m[i].k, <<"_", "_">>) IN
         IF IsDigit(splt[Len(splt)])
         THEN ScanVariations(
                  _create_variation(st, self, st.heap[self]._dict_params.m[i].v,
                                    VarKey(splt), ParseInt(splt[Len(splt)])),
                  self, i + 1)
         ELSE ScanVariations(st, self, i + 1)

Variations(st, self) ==
    LET
        variations_to_set(cls, dict_params) ==
            SelectSeq(Annotations(cls), LAMBDA a : HasKey(dict_params, a.k) /\ a.ty.t = "var")
    IN
        IF Ok(st)
        THEN SetVariations(st, self,
                           variations_to_set(st.heap[self].cls, st.heap[self]._dict_params), 1)
        ELSE st

\* cls(folder, params, name, modeler, parent): DrawableElement.__init__
NewElement(st, cls, prm, name, mdl, parent) ==
    LET
        \* the body of __init__ after its opening check; self is the new object
        InitBody(s0, self) ==
            LET
                \* ... and the two lists it returns
                attr_to_set(cls_, dict_params) ==
                    SelectSeq(Annotations(cls_), LAMBDA a : HasKey(dict_params, a.k) /\ a.ty.t = "elem")
            IN
                LET
                    VariationElements(st______) ==
                        IF Ok(st______) THEN ScanVariations(st______, self, 1) ELSE st______
                IN
                    LET
                        Children(st_____) ==
                            IF Ok(st_____)
                            THEN SetChildren(st_____, self,
                                             attr_to_set(st_____.heap[self].cls, st_____.heap[self]._dict_params), 1)
                            ELSE st_____
                    IN
                        LET
                            ParseParams(st____) ==
                                IF Ok(st____) THEN _parse_dict_params(st____, self) ELSE st____
                        IN
                            LET
                                StoreParams(st___) ==
                                    IF ~Ok(st___) THEN st___
                                    ELSE IF ~IsMap(st___.ret) THEN Raise(st___, "TypeError")
                                    ELSE [st___ EXCEPT !.heap[self]._dict_params = st___.ret]
                            IN
                                LET
                                    \* self._dict_params: for the root, with the files it names loaded
                                    LoadChildren(st__) ==
                                        IF Ok(st__) /\ parent = 0 THEN _load_files(st__, st__.ret) ELSE st__
                                IN
                                    LET
                                        \* dict_params: params itself, or the file it names
                                        LoadParams(st_) ==
                                            IF prm.t = "str" THEN _load_dict_from_file(st_, prm.s) ELSE Return(st_, prm)
                                    IN
                                        LET
                                            \* self._folder ... self._parent = parent
                                            SetFields(st_______) ==
                                                [st_______ EXCEPT !.heap = Append(@,
                                                    [t |-> "elem", cls |-> cls, _modeler |-> mdl, _mode |-> ModeOf(mdl).s,
                                                     _name |-> name, _parent |-> parent, _dict_params |-> NoneV,
                                                     attrs |-> EmptyMap])]
                                        IN
                                            IF ~Ok(s0) THEN s0
                                            ELSE IF IsErr(ModeOf(mdl)) THEN Raise(s0, ModeOf(mdl).e)
                                            ELSE Return(
                                                   VariationElements(Variations(
                                                       Children(ParseParams(StoreParams(LoadChildren(LoadParams(SetFields(s0)))))),
                                                       self)),
                                                   self)
    IN
        InitBody(OverrideCheck(Emit(st, [ev |-> "__init__", cls |-> cls]), cls), Len(st.heap) + 1)

-----------------------------------------------------------------------------
(* Drawing *)

\* draw without its gate
to_draw_always(st, self) == TRUE

\* self.to_draw: the instance attribute when there is one, else the class
\* attribute, True
to_draw(st, self) ==
    IF HasKey(st.heap[self].attrs, k_to_draw)
    THEN GetItem(st.heap[self].attrs, k_to_draw) # BoolV(FALSE)
    ELSE TRUE

\* the children property: the names, in the order of __dict__, of the public
\* attributes that hold a DrawableElement
IsChild(st, it) ==
    /\ it.v.t = "ref"
    /\ st.heap[it.v.id].t = "elem"
    /\ ~StartsWith(it.k, underscore)
children(st, self) ==
    [i \in 1..Len(SelectSeq(st.heap[self].attrs.m, LAMBDA it : IsChild(st, it))) |->
        SelectSeq(st.heap[self].attrs.m, LAMBDA it : IsChild(st, it))[i].k]

\* the attributes a class's own _draw delegates to, as Parent._draw of the
\* tests does with sample1: its element and Variation attributes, as declared
IsPart(a) == a.ty.t \in {"elem", "var"}
Delegates(cls) ==
    [i \in 1..Len(SelectSeq(Annotations(cls), IsPart)) |->
        SelectSeq(Annotations(cls), IsPart)[i].k]

RECURSIVE draw(_, _, _)
RECURSIVE _draw(_, _, _)
RECURSIVE DrawEach(_, _, _, _, _)
RECURSIVE DrawMembers(_, _, _, _)

\* for child in names: getattr(self, child).draw(body)
DrawEach(st, self, names, i, via) ==
    IF ~Ok(st) \/ i > Len(names) THEN st
    ELSE DrawEach(draw(st, GetItem(st.heap[self].attrs, names[i]).id, via),
                  self, names, i + 1, via)

\* for elm in self.variations: elm.draw(body)
DrawMembers(st, self, i, via) ==
    IF ~Ok(st) \/ i > Len(st.heap[self].variations) THEN st
    ELSE DrawMembers(draw(st, st.heap[self].variations[i], via), self, i + 1, via)

\* self._draw(body)
_draw(st, self, via) ==
    LET
        \* the _draw of a class that defines its own
        OwnDraw(st__, via__) ==
            DrawEach(st__, self, Delegates(st__.heap[self].cls), 1, via__)
    IN
        LET
            \* DrawableElement._draw; via is the chain of the objects whose draw is running
            DefaultDraw(st_, via_) ==
                LET
                    \* the end of DrawableElement._draw: if len(self.children) == 0: raise
                    ChildrenDrawn(s1) ==
                        IF Ok(s1) /\ Len(children(s1, self)) = 0
                        THEN Raise(s1, "NotImplementedError")
                        ELSE s1
                IN
                    ChildrenDrawn(DrawEach(st_, self, children(st_, self), 1, via_))
        IN
            IF klass[st.heap[self].cls].defines__draw
            THEN OwnDraw(Emit(st, [ev |-> "_draw", obj |-> self, via |-> via]), Append(via, self))
            ELSE DefaultDraw(Emit(st, [ev |-> "_draw", obj |-> self, via |-> via]), Append(via, self))

\* DrawableElement.draw and Variation.draw
draw(st, self, via) ==
    LET
        \* what draw does when to_draw holds
        DoDraw(st_) ==
            IF st_.heap[self].t = "var" THEN DrawMembers(st_, self, 1, Append(via, self))
            ELSE _draw(st_, self, via)
    IN
        IF to_draw(st, self)
        THEN DoDraw(Emit(st, [ev |-> "draw", obj |-> self, via |-> via]))
        ELSE Emit(st, [ev |-> "draw", obj |-> self, via |-> via])

-----------------------------------------------------------------------------
(* The inputs: element types, documents, modeler *)

\* number of objects whose to_draw is set to False before drawing
MaxHidden == 1

Klass(redefining, defining) ==
    [cls \in Classes |-> [redefines_draw |-> cls \in redefining,
                          defines__draw |-> cls \in defining]]
KlassChoices ==
    {Klass({cls}, Classes) : cls \in Classes}
    \cup {Klass({}, D) : D \in {Classes, {"Arr", "Jct", "Pad"}, {"Arr", "Pad"},
                                {"Pad"}, {}}}

chip_yaml == <<"c", "h", "i", "p">> \o dot_yaml
q_yaml == <<"q">> \o dot_yaml
k_pad__0 == k_pad \o <<"_", "_", "0">>
k_pad__1 == k_pad \o <<"_", "_", "1">>
k_w__0 == k_w \o <<"_", "_", "0">>
k_n__0 == k_n \o <<"_", "_", "0">>
Str1(c) == StrV(<<c>>)

\* the slice of a Qubit; 123 under the root's 456 as in tests/yaml_files
QubitDocs ==
    LET
        \* the slice of a Jct: w and cpl are local or left to the parents
        JctDocs ==
            {Chosen(<<Item(k_w, w), Item(k_cpl, cpl)>>) :
            w \in Opt({Str1("c")}), cpl \in Opt({EmptyMap})}
    IN
        {Chosen(<<Item(k_cpl, MapV(<<Item(k_w, Str1("d"))>>)), Item(k_jct, jct),
              Item(k_w, w), Item(k_n, n)>>) :
        jct \in JctDocs, w \in Opt({Str1("b")}), n \in Opt({IntV(123)})}
\* the variation keys of the slice of an Arr
VariationKeys ==
    {<<>>,
     <<Item(k_pad__0, NoneV)>>,
     <<Item(k_pad__0, MapV(<<Item(k_w, Str1("z"))>>))>>,
     <<Item(k_pad__1, MapV(<<Item(k_w, Str1("z"))>>)), Item(k_pad__0, NoneV)>>,
     <<Item(k_w__0, NoneV)>>,
     <<Item(k_n__0, NoneV)>>}
ArrDocs == {MapV(<<Item(k_pad, MapV(<<Item(k_w, Str1("p"))>>))>> \o keys) :
               keys \in VariationKeys}
ChipDoc(qubit, arr) ==
    MapV(<<Item(k_w, Str1("a")), Item(k_qubit, qubit), Item(k_g__np, Str1("g")),
           Item(k_lj__n, Str1("l")), Item(k_n, IntV(456)), Item(k_arr, arr)>>)

\* the three ways tests/basic_test.py gives a tree its documents: a mapping,
\* a file, a file that names another file
Layouts == {"inline", "file", "link"}
ParamsOf(layout, qubit, arr) ==
    IF layout = "inline" THEN ChipDoc(qubit, arr) ELSE StrV(chip_yaml)
FolderOf(layout, qubit, arr) ==
    IF layout = "inline" THEN <<>>
    ELSE IF layout = "file" THEN [f \in {chip_yaml} |-> ChipDoc(qubit, arr)]
    ELSE [f \in {chip_yaml, q_yaml} |->
             IF f = q_yaml THEN qubit ELSE ChipDoc(StrV(q_yaml), arr)]

Modelers == {NoneV, ModelerV(m_gds), ModelerV(m_hfss)}

-----------------------------------------------------------------------------
(* Specification of construction and drawing *)

MergeIdle == base_dict = EmptyMap /\ update = EmptyMap /\ merged = NoneV
SweepIdle == sweep = NoneV /\ written = NoneV
MemIdle == mem = <<>> /\ dict_at = 0 /\ variants = <<>>
GroupIdle == group = 0 /\ loops = <<>>

\* the name the root is given: its class name in lower case
RootName(cls) ==
    IF cls = "Chip" THEN StrV(<<"c", "h", "i", "p">>)
    ELSE IF cls = "Arr" THEN StrV(<<"a", "r", "r">>)
    ELSE StrV(<<"v", "e", "c">>)

Init ==
    /\ pc = "new"
    /\ klass \in KlassChoices
    /\ \E layout \in Layouts, qubit \in QubitDocs, arr \in ArrDocs :
          /\ params = ParamsOf(layout, qubit, arr)
          /\ folder = FolderOf(layout, qubit, arr)
    /\ modeler \in Modelers
    /\ heap = <<>> /\ calls = <<>> /\ trace = <<>> /\ error = NoError /\ root = 0
    /\ top = "Chip"
    /\ MergeIdle /\ SweepIdle /\ MemIdle /\ GroupIdle

Fresh == [heap |-> <<>>, calls |-> <<>>, trace |-> <<>>, error |-> NoError,
          ret |-> NoneV]

\* chip = Chip(folder, params, "chip", modeler)
Build ==
    LET
        \* what a finished constructor call leaves behind
        Outcome(st) ==
            /\ heap' = st.heap
            /\ calls' = st.calls
            /\ trace' = st.trace
            /\ error' = st.error
            /\ root' = IF Ok(st) THEN st.ret ELSE 0
            /\ pc' = IF Ok(st) THEN "built" ELSE "failed"
    IN
        /\ pc = "new"
        /\ Outcome(NewElement(Fresh, top, params, RootName(top), modeler, 0))
        /\ UNCHANGED <<klass, folder, params, modeler, base_dict, update, merged, top,
                       sweepVars, memVars, groupVars>>

Hidden == {obj \in 1..Len(heap) : HasKey(heap[obj].attrs, k_to_draw)}

\* obj.to_draw = False, by the code that owns the tree
SetToDraw ==
    /\ pc = "built"
    /\ Cardinality(Hidden) < MaxHidden
    /\ \E obj \in (1..Len(heap)) \ Hidden :
          heap' = [heap EXCEPT ![obj].attrs = SetItem(@, k_to_draw, BoolV(FALSE))]
    /\ UNCHANGED <<pc, klass, folder, params, modeler, calls, trace, error, root,
                   base_dict, update, merged, top, sweepVars, memVars, groupVars>>

Drawn(st) == trace' = st.trace /\ error' = st.error

\* chip.draw(body)
Draw ==
    /\ pc = "built"
    /\ Drawn(draw([Fresh EXCEPT !.heap = heap, !.calls = calls], root, <<>>))
    /\ pc' = "drawn"
    /\ UNCHANGED <<klass, folder, params, modeler, heap, calls, root,
                   base_dict, update, merged, top, sweepVars, memVars, groupVars>>

Next == Build \/ SetToDraw \/ Draw

Spec == Init /\ [][Next]_vars

-----------------------------------------------------------------------------
(* Properties of construction *)

Elements == {obj \in 1..Len(heap) : heap[obj].t = "elem"}
Constructed == pc \in {"built", "drawn"}
Declared(obj) == {Annotations(heap[obj].cls)[i] : i \in DOMAIN Annotations(heap[obj].cls)}
Slice(obj) == heap[obj]._dict_params
Attr(obj, key) == GetItem(heap[obj].attrs, key)
\* the name a variable of obj's attribute key is registered under
NameOf(obj, key) == heap[obj]._name.s \o underscore \o key
CallsNamed(name) == {c \in DOMAIN calls : calls[c].name = name}
Events(kinds) == {i \in DOMAIN trace : trace[i].ev \in kinds}

\* the declared, non-private attributes of obj that its slice does not hold
InheritedKeys(obj) ==
    {a.k : a \in {d \in Declared(obj) :
                     ~HasKey(Slice(obj), d.k) /\ ~StartsWith(d.k, underscore)}}
\* the declared attributes of the given kinds that the slice of obj holds
LocalKeys(obj, kinds) ==
    {a.k : a \in {d \in Declared(obj) : HasKey(Slice(obj), d.k) /\ d.ty.t \in kinds}}

\* the nearest of p and its ancestors that holds an attribute key, 0 if none
RECURSIVE NearestHolder(_, _)
NearestHolder(p, key) ==
    IF p = 0 THEN 0
    ELSE IF HasKey(heap[p].attrs, key) THEN p
    ELSE NearestHolder(heap[p]._parent, key)

\* C1: after construction, a declared non-private attribute that the slice of
\* an element does not hold is, when some ancestor holds an attribute of that
\* name, the very value of the nearest such ancestor, the walk starting at the
\* parent: the same handle, the same element, and no variable of its own.
C1_InheritedIsNearestAncestors ==
    Constructed =>
        \A obj \in Elements : \A key \in InheritedKeys(obj) :
            NearestHolder(heap[obj]._parent, key) # 0 =>
                /\ HasKey(heap[obj].attrs, key)
                /\ Attr(obj, key) = Attr(NearestHolder(heap[obj]._parent, key), key)
                /\ CallsNamed(NameOf(obj, key)) = {}

\* a Jct that takes w (a registered variable) and cpl (an element) from above
C1_Witness ==
    /\ Constructed
    /\ \E obj \in Elements :
          /\ heap[obj].cls = "Jct"
          /\ {k_w, k_cpl} \subseteq InheritedKeys(obj)
          /\ Attr(obj, k_w).t = "handle"
          /\ Attr(obj, k_cpl).t = "ref"
          /\ HasKey(Slice(heap[obj]._parent), k_w)

\* v is what the element obj makes of the raw value of its own slice at key
ResolvedFrom(v, obj, key, raw) ==
    \/ v = raw
    \/ v = ParsedV(raw)
    \/ /\ v.t = "handle"
       /\ calls[v.call] = [value |-> raw, name |-> NameOf(obj, key)]

\* C2: after construction, a declared attribute that the slice of an element
\* holds is resolved from the value in the slice, whatever the ancestors
\* hold under that name: a scalar is that value, its parsed literal or the
\* variable registered for it under the element's own name, a child element
\* is built from that slice; so n = 123 under a root with n = 456 stays 123
\* and the root keeps 456, with the slice inline or read from a named document.
C2_LocalValueWins ==
    Constructed =>
        \A obj \in Elements :
            /\ \A key \in LocalKeys(obj, {"num", "str"}) :
                  /\ HasKey(heap[obj].attrs, key)
                  /\ ResolvedFrom(Attr(obj, key), obj, key, GetItem(Slice(obj), key))
            /\ \A key \in LocalKeys(obj, {"elem"}) :
                  /\ HasKey(heap[obj].attrs, key)
                  /\ Attr(obj, key).t = "ref"
                  /\ heap[Attr(obj, key).id]._parent = obj
                  /\ Slice(Attr(obj, key).id) = GetItem(Slice(obj), key)

\* the qubit's slice comes from the document the root's document names, and
\* holds n = 123 and w under a root with n = 456 and another w
C2_Witness ==
    /\ Constructed
    /\ q_yaml \in DOMAIN folder
    /\ modeler = ModelerV(m_hfss)
    /\ \E obj \in Elements :
          /\ heap[obj].cls = "Qubit"
          /\ Slice(obj) = folder[q_yaml]
          /\ Attr(obj, k_n) = IntV(123)
          /\ Attr(heap[obj]._parent, k_n) = IntV(456)
          /\ HasKey(Slice(obj), k_w)
          /\ Attr(obj, k_w) # Attr(heap[obj]._parent, k_w)

\* the element types that redefine draw
Redefining == {cls \in Classes : klass[cls].redefines_draw}
\* a document was read, an attribute resolved or a variable registered
Loaded == Events({"read", "setattr", "set_variable", "parse_entry"}) # {} \/ calls # <<>>

\* C4, as claimed: with an element type that redefines draw anywhere in the
\* schema, root or nested, the build fails with ImplementationError before
\* any document is read, any attribute resolved or any variable registered.
C4_FailsBeforeAnyLoading ==
    (pc # "new" /\ Redefining # {}) =>
        /\ pc = "failed"
        /\ error = "ImplementationError"
        /\ ~Loaded

\* C4, amended: no element of a type that redefines draw is ever built; the
\* ImplementationError is raised as the first step of the constructor of the
\* element of that type, which reads, resolves and registers nothing; and
\* when the type is the root's, the build fails with it before any document
\* is read, any attribute resolved or any variable registered.  (Under a
\* nested type the ancestors have by then read their documents, resolved
\* their scalar attributes and registered their variables.)
C4_FailsAtOwnConstructor ==
    pc # "new" =>
        /\ \A obj \in Elements : heap[obj].cls \notin Redefining
        /\ error = "ImplementationError" =>
              /\ pc = "failed"
              /\ Len(trace) >= 2
              /\ trace[Len(trace) - 1].ev = "__init__"
              /\ trace[Len(trace) - 1].cls \in Redefining
        /\ top \in Redefining =>
              pc = "failed" /\ error = "ImplementationError" /\ ~Loaded

\* a nested type redefines draw: the build fails with variables registered
C4_Witness ==
    /\ pc = "failed"
    /\ error = "ImplementationError"
    /\ Redefining = {"Jct"}
    /\ calls # <<>>
    /\ Events({"read"}) # {}

\* the scalar attributes of string type, without suffix, that the slice holds
suffix__np == <<"_", "_", "n", "p">>
PlainStrKeys(obj) ==
    {key \in LocalKeys(obj, {"str"}) :
        ~EndsWith(key, suffix__n) /\ ~EndsWith(key, suffix__np)}

\* C6: after construction, a scalar attribute of string type, without suffix,
\* that the slice of the element holds is: without modeler the raw value, and
\* nothing is parsed or registered; in mode gds parse_entry of the raw value,
\* and no variable is registered; in any other mode the handle returned by
\* the one set_variable call whose name is the element's name, "_" and the
\* attribute's name, made with the raw value.
C6_ModeMatrix ==
    Constructed =>
        \A obj \in Elements : \A key \in PlainStrKeys(obj) :
            IF heap[obj]._mode = m_None
            THEN /\ Attr(obj, key) = GetItem(Slice(obj), key)
                 /\ Events({"parse_entry", "set_variable"}) = {}
            ELSE IF heap[obj]._mode = m_gds
            THEN /\ Attr(obj, key) = ParsedV(GetItem(Slice(obj), key))
                 /\ calls = <<>>
            ELSE /\ Attr(obj, key).t = "handle"
                 /\ CallsNamed(NameOf(obj, key)) = {Attr(obj, key).call}
                 /\ calls[Attr(obj, key).call].value = GetItem(Slice(obj), key)

\* a qubit with a w of its own, registered with an interactive modeler
C6_Witness ==
    /\ Constructed
    /\ modeler = ModelerV(m_hfss)
    /\ \E obj \in Elements :
          /\ heap[obj].cls = "Qubit"
          /\ k_w \in PlainStrKeys(obj)
          /\ Attr(obj, k_w).t = "handle"

\* C7: after construction, in every mode and for every declared scalar type,
\* an attribute named ...__np that the slice of the element holds is the raw
\* value, with no parse_entry and no set_variable call for it.
C7_NpIsRaw ==
    Constructed =>
        \A obj \in Elements : \A key \in LocalKeys(obj, {"num", "str"}) :
            EndsWith(key, suffix__np) =>
                /\ Attr(obj, key) = GetItem(Slice(obj), key)
                /\ CallsNamed(NameOf(obj, key)) = {}

\* C8: after construction with a modeler, gds or interactive, an attribute of
\* string type named ...__n that the slice of the element holds is
\* parse_entry of the raw value, and no variable is registered for it.
C8_NIsParsed ==
    (Constructed /\ modeler # NoneV) =>
        \A obj \in Elements : \A key \in LocalKeys(obj, {"str"}) :
            EndsWith(key, suffix__n) =>
                /\ Attr(obj, key) = ParsedV(GetItem(Slice(obj), key))
                /\ CallsNamed(NameOf(obj, key)) = {}

\* the root's document, and in it the keys pad__<index> of the Arr's slice
RootDoc == IF params.t = "str" THEN folder[params.s] ELSE params
VariationKeysOf(slice) == {key \in {k_pad__0, k_pad__1} : HasKey(slice, key)}
IndexOf(key) == Split(key, <<"_", "_">>)[Len(Split(key, <<"_", "_">>))]

\* C9: for every key pad__<index> of the slice of an Arr, whose pad is a
\* declared and locally configured Variation attribute, construction succeeds
\* and the group holds one more element of the declared type, named
\* <element>_pad_<index>, with the Arr as parent and the Arr's modeler and mode.
C9_VariationsBuilt ==
    (/\ pc # "new"
     /\ Redefining = {}
     /\ IndexedKeys(GetItem(RootDoc, k_arr)) \subseteq {k_pad__0, k_pad__1}) =>
        /\ pc # "failed"
        /\ \A obj \in Elements : heap[obj].cls = "Arr" =>
              /\ Len(heap[Attr(obj, k_pad).id].variations)
                    = Cardinality(VariationKeysOf(Slice(obj)))
              /\ \A key \in VariationKeysOf(Slice(obj)) :
                    \E m \in DOMAIN heap[Attr(obj, k_pad).id].variations :
                        LET elm == heap[heap[Attr(obj, k_pad).id].variations[m]] IN
                        /\ elm.cls = "Pad"
                        /\ elm._name = StrV(NameOf(obj, k_pad) \o underscore \o IndexOf(key))
                        /\ elm._parent = obj
                        /\ elm._modeler = heap[obj]._modeler
                        /\ elm._mode = heap[obj]._mode

\* the keys <base>__<index> of the slice of an element of class cls whose
\* base is not declared as a Variation attribute of cls
UndeclaredVariations(cls, slice) ==
    {key \in IndexedKeys(slice) :
        ~(/\ IsAnnotated(cls, VarKey(Split(key, <<"_", "_">>)))
          /\ AnnType(cls, VarKey(Split(key, <<"_", "_">>))).t = "var")}

\* C12: when the slice of an element holds a key <base>__<index> whose base
\* is not a declared Variation attribute of the element - undeclared, or
\* declared as a scalar, or held only through inheritance - construction
\* fails with the ValueError of _create_variation, and with no other error.
C12_UndeclaredVariationIsValueError ==
    (/\ pc # "new"
     /\ Redefining = {}
     /\ UndeclaredVariations("Arr", GetItem(RootDoc, k_arr)) # {}) =>
        pc = "failed" /\ error = "ValueError"

-----------------------------------------------------------------------------
(* Properties of drawing *)

\* C3: in a traversal started by draw, no _draw runs on an element whose
\* to_draw is false, nor - through such an element or group - on any element
\* below it, whatever the to_draw of those below.
C3_HiddenSubtreeNotRendered ==
    pc = "drawn" =>
        \A i \in Events({"_draw"}) :
            /\ trace[i].obj \notin Hidden
            /\ \A j \in DOMAIN trace[i].via : trace[i].via[j] \notin Hidden

\* the qubit is hidden, draw reached it, and the rest of the tree was rendered
C3_Witness ==
    /\ pc = "drawn"
    /\ error = NoError
    /\ \E h \in Hidden :
          /\ heap[h].t = "elem" /\ heap[h].cls = "Qubit"
          /\ \E i \in Events({"draw"}) : trace[i].obj = h
    /\ Cardinality(Events({"_draw"})) >= 2

\* the objects draw was called on from the _draw recorded at trace[i], in order
RECURSIVE DrawnUnder(_, _)
DrawnUnder(i, j) ==
    IF j > Len(trace) THEN <<>>
    ELSE IF trace[j].ev = "draw" /\ trace[j].via = Append(trace[i].via, trace[i].obj)
    THEN <<trace[j].obj>> \o DrawnUnder(i, j + 1)
    ELSE DrawnUnder(i, j + 1)
\* the element and Variation attributes of obj, in the order of declaration
Drawables(obj) ==
    [n \in DOMAIN Delegates(heap[obj].cls) |-> Attr(obj, Delegates(heap[obj].cls)[n]).id]

\* C5: the _draw of an element type without a _draw of its own calls draw
\* once on each element attribute and each Variation attribute of the
\* element, in the order of declaration, and on nothing else; an element
\* whose only such attribute is a Variation delegates to it and does not fail.
C5_DefaultDrawDelegates ==
    pc = "drawn" =>
        \A i \in Events({"_draw"}) :
            (~klass[heap[trace[i].obj].cls].defines__draw
                /\ Drawables(trace[i].obj) # <<>>) =>
                /\ DrawnUnder(i, i + 1) # <<>>
                /\ error = NoError => DrawnUnder(i, i + 1) = Drawables(trace[i].obj)

-----------------------------------------------------------------------------
(* The documents given to deep_update *)

Leaves == {IntV(i) : i \in 1..MaxLeaf}
InnerMaps == {Chosen(<<Item(<<"c">>, c), Item(<<"d">>, d)>>) :
                 c \in Opt(Leaves), d \in Opt(Leaves)}

-----------------------------------------------------------------------------
(* Specification of the merge: _create_variation's use of _complete_dict and *)
(* deep_update on a base slice and an override fragment                      *)

Idle == /\ klass = <<>> /\ folder = <<>> /\ params = NoneV /\ modeler = NoneV
        /\ heap = <<>> /\ calls = <<>> /\ trace = <<>> /\ error = "NoError"
        /\ root = 0 /\ top = "Chip"

MergeInit ==
    LET
        \* override fragments as a document writes them, dotted keys included
        FlatUpdates ==
            {Chosen(<<Item(<<"a">>, a), Item(<<"a", ".", "c">>, ac),
                  Item(<<"b", ".", "c">>, bc)>>) :
            a \in Opt(Leaves \cup {EmptyMap}), ac \in Opt(Leaves),
            bc \in Opt(Leaves)}
    IN
        LET
            BaseDicts ==
                {Chosen(<<Item(<<"a">>, a), Item(<<"b">>, b)>>) :
                a \in Opt(Leaves \cup InnerMaps), b \in Opt(Leaves \cup InnerMaps)}
        IN
            /\ pc = "flat"
            /\ base_dict \in BaseDicts
            /\ update \in FlatUpdates
            /\ merged = NoneV
            /\ Idle /\ SweepIdle /\ MemIdle /\ GroupIdle

CompleteDict ==
    /\ pc = "flat"
    /\ update' = _complete_dict(update)
    /\ pc' = IF IsErr(update') THEN "failed" ELSE "nested"
    /\ UNCHANGED <<klass, folder, params, modeler, heap, calls, trace, error,
                   root, base_dict, merged, top, sweepVars, memVars, groupVars>>

DeepUpdate ==
    /\ pc = "nested"
    /\ merged' = deep_update(base_dict, update)
    /\ pc' = "merged"
    /\ UNCHANGED <<klass, folder, params, modeler, heap, calls, trace, error,
                   root, base_dict, update, top, sweepVars, memVars, groupVars>>

MergeNext == CompleteDict \/ DeepUpdate

SpecMerge == MergeInit /\ [][MergeNext]_vars

\* The merge the specification describes, as a relation between the result
\* and the two arguments: dictionaries compare without regard to order.
RECURSIVE IsRefMerge(_, _, _)
IsRefMerge(res, b, u) ==
    /\ IsMap(res)
    /\ KeysOf(res) = KeysOf(b) \cup KeysOf(u)
    /\ \A key \in KeysOf(res) :
          LET r == GetItem(res, key) IN
          IF ~HasKey(u, key) THEN r = GetItem(b, key)
          ELSE IF HasKey(b, key) /\ IsMap(GetItem(b, key)) /\ IsMap(GetItem(u, key))
               THEN IsRefMerge(r, GetItem(b, key), GetItem(u, key))
               ELSE IF IsMap(GetItem(u, key))
                    THEN IsRefMerge(r, EmptyMap, GetItem(u, key))
                    ELSE r = GetItem(u, key)

\* C10: deep_update returns, without error, the reference merge of the base
\* mapping and the (dot-flattened) override mapping: override keys win, and
\* two mappings at the same key merge recursively.
C10_DeepUpdateIsRefMerge ==
    pc = "merged" => IsRefMerge(merged, base_dict, update)

\* where the code agrees with the reference merge: at no key does the
\* override hold a mapping over a scalar of the base
NoMapOverScalar ==
    \A key \in KeysOf(update) :
        (IsMap(GetItem(update, key)) /\ HasKey(base_dict, key))
            => IsMap(GetItem(base_dict, key))
C10_AgreesElsewhere ==
    (pc = "merged" /\ NoMapOverScalar) => IsRefMerge(merged, base_dict, update)

-----------------------------------------------------------------------------
(* The objects of a document: dicts and lists by address, so that two      *)
(* mappings can be told from one mapping reached twice                     *)

PtrV(at) == [t |-> "ptr", at |-> at]
IsDict(m, v) == v.t = "ptr" /\ m[v.at].t = "map"
Result(m, v) == [mem |-> m, ret |-> v]
\* d[key] = value, for the dict at address d
StoreItem(m, d, key, value) == [m EXCEPT ![d] = SetItem(@, key, value)]

\* yaml.safe_load: the objects of a document, each mapping and list its own
RECURSIVE Load(_, _)
RECURSIVE LoadItems(_, _, _, _)
LoadItems(m, v, i, done) ==
    LET
        ItemLoaded(r) ==
            LoadItems(r.mem, v, i + 1, Append(done, Item(v.m[i].k, r.ret)))
    IN
        IF i > Len(v.m) THEN Result(Append(m, MapV(done)), PtrV(Len(m) + 1))
        ELSE ItemLoaded(Load(m, v.m[i].v))
Load(m, v) ==
    IF v.t = "map" THEN LoadItems(m, v, 1, <<>>)
    ELSE IF v.t = "list" THEN Result(Append(m, v), PtrV(Len(m) + 1))
    ELSE Result(m, v)

\* the document an object stands for
RECURSIVE ValueOf(_, _)
ValueOf(m, v) ==
    IF v.t # "ptr" THEN v
    ELSE IF m[v.at].t = "list" THEN m[v.at]
    ELSE MapV([i \in DOMAIN m[v.at].m |->
                  Item(m[v.at].m[i].k, ValueOf(m, m[v.at].m[i].v))])

\* the addresses of the objects reached from v
RECURSIVE Reach(_, _)
Reach(m, v) ==
    IF v.t # "ptr" THEN {}
    ELSE IF m[v.at].t = "list" THEN {v.at}
    ELSE {v.at} \cup UNION {Reach(m, m[v.at].m[i].v) : i \in DOMAIN m[v.at].m}

\* copy.deepcopy handing back its argument
deepcopy_shared(m, v) == Result(m, v)

\* copy.deepcopy
RECURSIVE deepcopy(_, _)
RECURSIVE CopyItems(_, _, _, _)
CopyItems(m, src, i, done) ==
    LET
        ItemCopied(r) ==
            CopyItems(r.mem, src, i + 1, Append(done, Item(r.mem[src].m[i].k, r.ret)))
    IN
        IF i > Len(m[src].m) THEN Result(Append(m, MapV(done)), PtrV(Len(m) + 1))
        ELSE ItemCopied(deepcopy(m, m[src].m[i].v))
deepcopy(m, v) ==
    IF v.t # "ptr" THEN Result(m, v)
    ELSE IF m[v.at].t = "list" THEN Result(Append(m, m[v.at]), PtrV(Len(m) + 1))
    ELSE CopyItems(m, v.at, 1, <<>>)

dot == <<".">>

\* for k in splt[:-1]: local = local.setdefault(k, {})
RECURSIVE Descend(_, _, _, _)
Descend(m, local, splt, j) ==
    IF j > Len(splt) - 1 THEN Result(m, local)
    ELSE IF ~IsDict(m, local) THEN Result(m, ErrV("AttributeError"))
    ELSE IF HasKey(m[local.at], splt[j])
    THEN Descend(m, GetItem(m[local.at], splt[j]), splt, j + 1)
    ELSE Descend(StoreItem(Append(m, EmptyMap), local.at, splt[j], PtrV(Len(m) + 1)),
                 PtrV(Len(m) + 1), splt, j + 1)

\* the loop of _complete_dict over the items of the copy of sub_dict
RECURSIVE CompleteFrom(_, _, _, _)
CompleteFrom(m, sub, full, i) ==
    LET
        \* local[splt[-1]] = val
        Descended(r, splt) ==
            IF IsErr(r.ret) THEN r
            ELSE IF ~IsDict(r.mem, r.ret) THEN Result(r.mem, ErrV("TypeError"))
            ELSE CompleteFrom(StoreItem(r.mem, r.ret.at, splt[Len(splt)], r.mem[sub].m[i].v),
                              sub, full, i + 1)
    IN
        IF i > Len(m[sub].m) THEN Result(m, PtrV(full))
        ELSE IF Len(Split(m[sub].m[i].k, dot)) = 1
        THEN CompleteFrom(StoreItem(m, full, m[sub].m[i].k, m[sub].m[i].v), sub, full, i + 1)
        ELSE Descended(Descend(m, PtrV(full), Split(m[sub].m[i].k, dot), 1), Split(m[sub].m[i].k, dot))

\* deep_update, on the objects: base_dict is changed in place
RECURSIVE update_at(_, _, _)
RECURSIVE UpdateFrom(_, _, _, _)
UpdateFrom(m, base, upd, i) ==
    LET
        \* deep_update(base_dict.get(key, {}), value)
        InnerUpdate ==
            IF HasKey(m[base.at], m[upd].m[i].k)
            THEN update_at(m, GetItem(m[base.at], m[upd].m[i].k), m[upd].m[i].v)
            ELSE update_at(Append(m, EmptyMap), PtrV(Len(m) + 1), m[upd].m[i].v)
    IN
        LET
            \* base_dict[key] = <what the inner deep_update returned>
            InnerUpdated(r) ==
                IF IsErr(r.ret) THEN r
                ELSE UpdateFrom(StoreItem(r.mem, base.at, r.mem[upd].m[i].k, r.ret), base, upd, i + 1)
        IN
            IF i > Len(m[upd].m) THEN Result(m, base)
            ELSE IF IsDict(m, m[upd].m[i].v)
            THEN IF ~IsDict(m, base) THEN Result(m, ErrV("AttributeError"))
                 ELSE InnerUpdated(InnerUpdate)
            ELSE IF ~IsDict(m, base) THEN Result(m, ErrV("TypeError"))
            ELSE UpdateFrom(StoreItem(m, base.at, m[upd].m[i].k, m[upd].m[i].v), base, upd, i + 1)
update_at(m, base, upd) == UpdateFrom(m, base, upd.at, 1)

\* the variation mapping of _create_variation, on the objects
variation_at(m, slice, sub_dict, kv) ==
    LET
        \* _complete_dict, on the objects
        complete_dict_at(m_) ==
            LET
                \* full_dict = {}, then the loop
                Copied(r__) ==
                    IF ~IsDict(r__.mem, r__.ret) THEN Result(r__.mem, ErrV("AttributeError"))
                    ELSE CompleteFrom(Append(r__.mem, EmptyMap), r__.ret.at, Len(r__.mem) + 1, 1)
            IN
                Copied(deepcopy(m_, sub_dict))
    IN
        LET
            \* if sub_dict is not None: ...
            Cloned(r) ==
                LET
                    \* variation = deep_update(variation, sub_dict), sub_dict completed
                    Completed(r_, variation) ==
                        IF IsErr(r_.ret) THEN r_ ELSE update_at(r_.mem, variation, r_.ret)
                IN
                    IF sub_dict = NoneV THEN r
                    ELSE IF ~IsDict(r.mem, sub_dict) THEN Result(r.mem, ErrV("AttributeError"))
                    ELSE Completed(complete_dict_at(r.mem), r.ret)
        IN
            Cloned(deepcopy(m, GetItem(m[slice], kv)))

-----------------------------------------------------------------------------
(* Specification of _create_variation on the objects of a slice: the slice  *)
(* of an element with a base attribute pad and keys pad__0, pad__1          *)

\* number of _create_variation calls on one slice
MaxVariants == 2

k_s == <<"s">>
k_v == <<"v">>
\* the base slice: a scalar, a nested mapping, a list
BaseSlice ==
    MapV(<<Item(k_w, Str1("p")),
           Item(k_s, MapV(<<Item(<<"c">>, IntV(1)), Item(<<"d">>, IntV(2))>>)),
           Item(k_v, ListV(<<IntV(1), IntV(2)>>))>>)
\* the override fragments of a document: none, empty, flat, dotted, nested,
\* a list, a new branch, a branch under a scalar
Fragments ==
    {NoneV, EmptyMap,
     MapV(<<Item(k_w, Str1("z"))>>),
     MapV(<<Item(<<"s", ".", "c">>, IntV(9))>>),
     MapV(<<Item(k_s, MapV(<<Item(<<"c">>, IntV(9))>>))>>),
     MapV(<<Item(k_v, ListV(<<IntV(3)>>))>>),
     MapV(<<Item(<<"t", ".", "u">>, IntV(5)), Item(<<"s", ".", "e">>, IntV(7))>>),
     MapV(<<Item(<<"w", ".", "x">>, IntV(1))>>)}
SliceOf(f0, f1) ==
    MapV(<<Item(k_pad, BaseSlice), Item(k_pad__0, f0), Item(k_pad__1, f1)>>)

VariationInit ==
    /\ pc = "scan"
    /\ \E f0 \in Fragments, f1 \in Fragments :
          /\ params = SliceOf(f0, f1)
          /\ mem = Load(<<>>, SliceOf(f0, f1)).mem
          /\ dict_at = Load(<<>>, SliceOf(f0, f1)).ret.at
    /\ variants = <<>>
    /\ klass = <<>> /\ folder = <<>> /\ modeler = NoneV
    /\ heap = <<>> /\ calls = <<>> /\ trace = <<>> /\ error = NoError
    /\ root = 0 /\ top = "Arr"
    /\ MergeIdle /\ SweepIdle /\ GroupIdle

\* self._create_variation(sub_dict, var_key, var_index) for a key of the slice
CreateVariation ==
    LET
        \* the constructor is handed the variation and raises (its arguments are
        \* out of order), or the merge has raised before
        Handed(r, key) ==
            /\ mem' = r.mem
            /\ variants' = Append(variants, [key |-> key, variation |-> r.ret])
            /\ error' = IF IsErr(r.ret) THEN r.ret.e ELSE "AttributeError"
    IN
        /\ pc = "scan"
        /\ Len(variants) < MaxVariants
        /\ \E key \in IndexedKeys(mem[dict_at]) :
              Handed(variation_at(mem, dict_at, GetItem(mem[dict_at], key),
                                  VarKey(Split(key, <<"_", "_">>))), key)
        /\ UNCHANGED <<pc, klass, folder, params, modeler, heap, calls, trace, root,
                       base_dict, update, merged, top, dict_at, sweepVars, groupVars>>

VariationNext == CreateVariation

SpecVariation == VariationInit /\ [][VariationNext]_vars

\* the variation of a key, merged from the original base slice
MergedFrom(base, fragment) ==
    IF fragment = NoneV THEN base
    ELSE IF IsErr(_complete_dict(fragment)) THEN _complete_dict(fragment)
    ELSE deep_update(base, _complete_dict(fragment))
Computed == {i \in DOMAIN variants : ~IsErr(variants[i].variation)}

\* C11: the variation computed for a key - its fragment None, empty or not -
\* shares no mapping or list with the slice the element holds (the base
\* attribute's slice and the fragments) nor with the variation of another
\* call; the slice is left as it was, whatever the number of calls; and each
\* variation is the merge of the original base slice with its own fragment.
C11_VariationsIsolated ==
    pc = "scan" =>
        /\ ValueOf(mem, PtrV(dict_at)) = params
        /\ \A i \in DOMAIN variants :
              IF i \in Computed
              THEN /\ Reach(mem, variants[i].variation)
                         \cap Reach(mem, PtrV(dict_at)) = {}
                   /\ \A j \in Computed \ {i} :
                         Reach(mem, variants[i].variation)
                             \cap Reach(mem, variants[j].variation) = {}
                   /\ ValueOf(mem, variants[i].variation)
                         = MergedFrom(GetItem(params, k_pad),
                                      GetItem(params, variants[i].key))
              ELSE IsErr(MergedFrom(GetItem(params, k_pad),
                                    GetItem(params, variants[i].key)))

\* two variations of one slice, one from a nested fragment, one from a
\* fragment that replaces the list
C11_Witness ==
    /\ pc = "scan"
    /\ Computed = {1, 2}
    /\ variants[1].key # variants[2].key
    /\ GetItem(params, variants[1].key) = MapV(<<Item(<<"s", ".", "c">>, IntV(9))>>)
    /\ GetItem(params, variants[2].key) = MapV(<<Item(k_v, ListV(<<IntV(3)>>))>>)
    /\ ValueOf(mem, variants[1].variation) # ValueOf(mem, variants[2].variation)

-----------------------------------------------------------------------------
(* Sweep documents: _check_existing_path, _create_dictionary_variation and  *)
(* create_variation_yaml_file                                               *)

\* what getattr finds on a class member that is not in the instance dict
MemberV == [t |-> "member"]

\* getattr(local_attr, k, None): elements and Variations carry attributes,
\* the scalars of the tree carry none of the names of a path
getattr(st, local_attr, k) ==
    LET
        \* the public names a Variation has from its class
        VariationNames ==
            {<<"v", "a", "r", "i", "a", "t", "i", "o", "n", "s">>, k_to_draw,
             <<"d", "r", "a", "w">>, <<"a", "p", "p", "e", "n", "d">>}
    IN
        IF local_attr.t # "ref" THEN NoneV
        ELSE IF HasKey(st.heap[local_attr.id].attrs, k)
        THEN GetItem(st.heap[local_attr.id].attrs, k)
        ELSE IF st.heap[local_attr.id].t = "var"
        THEN IF k \in VariationNames THEN MemberV ELSE NoneV
        ELSE IF k = <<"p", "a", "r", "e", "n", "t">>
        THEN IF st.heap[local_attr.id]._parent = 0 THEN NoneV
             ELSE RefV(st.heap[local_attr.id]._parent)
        ELSE IF k \in ClassNames THEN MemberV ELSE NoneV

\* [el for el in dir(None) if not el.startswith("_")]: None has no public name
public_dir_of_None == {}

\* _check_existing_path: local_attr already holds None when its names are
\* listed for the message of the ValueError
RECURSIVE CheckFrom(_, _, _, _)
CheckFrom(st, local_attr, splt, j) ==
    IF j > Len(splt) THEN Return(st, BoolV(TRUE))
    ELSE IF getattr(st, local_attr, splt[j]) = NoneV
    THEN Raise(Emit(st, [ev |-> "message", at |-> splt[j],
                         attrs |-> public_dir_of_None]), "ValueError")
    ELSE CheckFrom(st, getattr(st, local_attr, splt[j]), splt, j + 1)
_check_existing_path(st, self, path) == CheckFrom(st, RefV(self), Split(path, dot), 1)

\* for k in splt[1:-1]: ... local = local[k], then local[splt[-1]] = value.
\* An int or a list in the way is a TypeError, and so is a str, unless the
\* last segment is found in it
RECURSIVE Placed(_, _, _, _)
Placed(local, splt, j, value) ==
    LET
        \* k in s, for two strings
        InStr(k, s) ==
            \E i \in 1..(Len(s) - Len(k) + 1) : SubSeq(s, i, i + Len(k) - 1) = k
        Put(inner) == IF IsErr(inner) THEN inner ELSE SetItem(local, splt[j], inner)
    IN  IF j > Len(splt) - 1
        THEN IF local.t = "str"
             THEN IF InStr(splt[Len(splt)], local.s) THEN ErrV("ValueError")
                  ELSE ErrV("TypeError")
             ELSE IF ~IsMap(local) THEN ErrV("TypeError")
             ELSE IF HasKey(local, splt[Len(splt)]) THEN ErrV("ValueError")
             ELSE SetItem(local, splt[Len(splt)], value)
        ELSE IF ~IsMap(local) THEN ErrV("TypeError")
        ELSE Put(Placed(DictGet(local, splt[j], EmptyMap), splt, j + 1, value))

\* result[f"{sub_key}__{ind}"], filled by the loop over sub_variation
RECURSIVE EntryFrom(_, _, _, _, _)
EntryFrom(local, sub_key, sub_variation, ind, j) ==
    IF IsErr(local) \/ j > Len(sub_variation.m) THEN local
    ELSE IF Split(sub_variation.m[j].k, dot)[1] # sub_key
    THEN ErrV("ImplementationError")
    ELSE EntryFrom(Placed(local, Split(sub_variation.m[j].k, dot), 2,
                          sub_variation.m[j].v.l[ind + 1]),
                   sub_key, sub_variation, ind, j + 1)

\* placing every value at the top of the entry, whatever the path (a variant
\* of the loop, for comparison)
RECURSIVE _create_dictionary_variation_flat(_, _, _)
_create_dictionary_variation_flat(sub_key, sub_len, sub_variation) ==
    IF sub_len = 0 THEN EmptyMap
    ELSE SetItem(_create_dictionary_variation_flat(sub_key, sub_len - 1, sub_variation),
                 sub_key \o <<"_", "_">> \o FormatInt(sub_len - 1),
                 MapV([j \in DOMAIN sub_variation.m |->
                          Item(Split(sub_variation.m[j].k, dot)[
                                   Len(Split(sub_variation.m[j].k, dot))],
                               sub_variation.m[j].v.l[sub_len])]))

\* _create_dictionary_variation
_create_dictionary_variation(sub_key, sub_len, sub_variation) ==
    LET RECURSIVE ResultFrom(_, _)
        ResultFrom(result, ind) ==
            LET Add(entry) ==
                    IF IsErr(entry) THEN entry
                    ELSE SetItem(result, sub_key \o <<"_", "_">> \o FormatInt(ind), entry)
            IN  IF IsErr(result) \/ ind >= sub_len THEN result
                ELSE ResultFrom(Add(EntryFrom(EmptyMap, sub_key, sub_variation, ind, 1)),
                                ind + 1)
    IN  ResultFrom(EmptyMap, 0)

\* the first loop of create_variation_yaml_file: the paths are checked and
\* grouped by their first segment into dict_vars_len and dict_vars_div
RECURSIVE GroupFrom(_, _, _, _, _, _)
GroupFrom(st, self, variation, j, dict_vars_len, dict_vars_div) ==
    LET k_0 == Split(variation.m[j].k, dot)[1]
        Checked(s) ==
            IF ~Ok(s) THEN s
            ELSE IF HasKey(dict_vars_len, k_0)
            THEN IF Len(variation.m[j].v.l) # GetItem(dict_vars_len, k_0).i
                 THEN Raise(s, "ValueError")
                 ELSE GroupFrom(s, self, variation, j + 1, dict_vars_len,
                                SetItem(dict_vars_div, k_0,
                                        SetItem(GetItem(dict_vars_div, k_0),
                                                variation.m[j].k, variation.m[j].v)))
            ELSE GroupFrom(s, self, variation, j + 1,
                           SetItem(dict_vars_len, k_0, IntV(Len(variation.m[j].v.l))),
                           SetItem(dict_vars_div, k_0,
                                   MapV(<<Item(variation.m[j].k, variation.m[j].v)>>)))
    IN  IF j > Len(variation.m)
        THEN Return(st, [len |-> dict_vars_len, div |-> dict_vars_div])
        ELSE Checked(_check_existing_path(st, self, variation.m[j].k))

\* yaml_dict.update(sub_dict)
RECURSIVE dict_update(_, _, _)
dict_update(d, other, j) ==
    IF j > Len(other.m) THEN d
    ELSE dict_update(SetItem(d, other.m[j].k, other.m[j].v), other, j + 1)

\* the last loop of create_variation_yaml_file
RECURSIVE SubDictsFrom(_, _, _, _)
SubDictsFrom(yaml_dict, dict_vars_len, dict_vars_div, j) ==
    LET Updated_with(sub_dict) ==
            IF IsErr(sub_dict) THEN sub_dict ELSE dict_update(yaml_dict, sub_dict, 1)
    IN  IF IsErr(yaml_dict) \/ j > Len(dict_vars_div.m) THEN yaml_dict
        ELSE SubDictsFrom(
                 Updated_with(_create_dictionary_variation(
                                  dict_vars_div.m[j].k,
                                  GetItem(dict_vars_len, dict_vars_div.m[j].k).i,
                                  dict_vars_div.m[j].v)),
                 dict_vars_len, dict_vars_div, j + 1)

\* create_variation_yaml_file up to the dump: the document handed to
\* yaml.safe_dump
create_variation_yaml_file(st, self, variation) ==
    LET Dumped(s, yaml_dict) ==
            IF IsErr(yaml_dict) THEN Raise(s, yaml_dict.e) ELSE Return(s, yaml_dict)
        Grouped(s) ==
            IF ~Ok(s) THEN s
            ELSE Dumped(s, SubDictsFrom(
                               MapV(SelectSeq(s.heap[self]._dict_params.m,
                                       LAMBDA it : it.k \notin
                                           IndexedKeys(s.heap[self]._dict_params))),
                               s.ret.len, s.ret.div, 1))
    IN  Grouped(GroupFrom(st, self, variation, 1, EmptyMap, EmptyMap))

\* a < b, for two strings
RECURSIVE StrLess(_, _)
StrLess(a, b) ==
    LET
        ord(c) ==
            LET
                \* the characters of the keys, in the order of their code points
                CodePoints ==
                    <<".", "0", "1", "2", "3", "4", "5", "6", "7", "8", "9", "_",
                      "a", "b", "c", "d", "e", "f", "g", "h", "i", "j", "k", "l", "m",
                      "n", "o", "p", "q", "r", "s", "t", "u", "v", "w", "x", "y", "z">>
            IN
                CHOOSE i \in DOMAIN CodePoints : CodePoints[i] = c
    IN
        IF b = <<>> THEN FALSE
        ELSE IF a = <<>> THEN TRUE
        ELSE IF a[1] # b[1] THEN ord(a[1]) < ord(b[1])
        ELSE StrLess(Tail(a), Tail(b))

\* yaml.safe_load(yaml.safe_dump(doc)): safe_dump writes the keys of every
\* mapping in sorted order
RECURSIVE safe_dump(_)
safe_dump(doc) ==
    IF ~IsMap(doc) THEN doc
    ELSE MapV([i \in DOMAIN doc.m |->
                 LET it == doc.m[CHOOSE j \in DOMAIN doc.m :
                               Cardinality({l \in DOMAIN doc.m :
                                   StrLess(doc.m[l].k, doc.m[j].k)}) = i - 1]
                 IN  Item(it.k, safe_dump(it.v))])

-----------------------------------------------------------------------------
(* Specification of the sweep: a tree is built, a sweep document is written *)
(* from it with create_variation_yaml_file, the same class is built again   *)
(* from the file                                                            *)

\* paths in one sweep, and values in the sequence of one path
MaxSweepPaths == 2
MaxSweepLen == 2

sweep_yaml == <<"s">> \o dot_yaml
Path2(a, b) == a \o dot \o b
Sweeps(cls) ==
    LET
        \* the paths the sweeps are drawn from: attributes of the tree at one, two
        \* and three segments, through a Variation, and paths that leave the tree
        SweepPaths ==
            IF cls = "Arr"
            THEN {Path2(k_pad, k_w), Path2(k_pad, k_n), k_n, Path2(k_pad, <<"q">>),
                  Path2(<<"x">>, <<"y">>), Path2(k_pad, Path2(k_w, <<"z">>))}
            ELSE {Path2(k_qubit, k_w), Path2(k_qubit, Path2(k_cpl, k_w)),
                  Path2(k_qubit, k_cpl), Path2(k_arr, Path2(k_pad, k_w)),
                  Path2(k_qubit, Path2(k_jct, <<"q">>))}
    IN
        LET
            \* the j-th sequence of a sweep, of length n: 10j+1, 10j+2, ...
            SweepValues(j, n) == ListV([i \in 1..n |-> IntV(10 * j + i)])
        IN
            {MapV([j \in 1..Len(paths) |-> Item(paths[j], SweepValues(j, lens[j]))]) :
                <<paths, lens>> \in
                    UNION {{<<ps, ls>> \in [1..n -> SweepPaths] \X [1..n -> 0..MaxSweepLen] :
                               \A a, b \in 1..n : a # b => ps[a] # ps[b]} :
                           n \in 1..MaxSweepPaths}}

\* the documents of the tree the sweep is written from
SweepQubit ==
    MapV(<<Item(k_cpl, MapV(<<Item(k_w, Str1("d"))>>)), Item(k_jct, EmptyMap),
           Item(k_w, Str1("b"))>>)
SweepArr == MapV(<<Item(k_pad, MapV(<<Item(k_w, Str1("p"))>>))>>)
ArrRootDoc == MapV(SweepArr.m \o <<Item(k_n, IntV(456))>>)

SweepInit ==
    /\ pc = "new"
    /\ klass = Klass({}, Classes)
    /\ top \in {"Chip", "Arr"}
    /\ \E layout \in Layouts :
          IF top = "Chip"
          THEN /\ params = ParamsOf(layout, SweepQubit, SweepArr)
               /\ folder = FolderOf(layout, SweepQubit, SweepArr)
          ELSE /\ params = IF layout = "inline" THEN ArrRootDoc ELSE StrV(chip_yaml)
               /\ folder = IF layout = "inline" THEN <<>>
                           ELSE [f \in {chip_yaml} |-> ArrRootDoc]
    /\ modeler \in Modelers
    /\ heap = <<>> /\ calls = <<>> /\ trace = <<>> /\ error = NoError /\ root = 0
    /\ MergeIdle /\ SweepIdle /\ MemIdle /\ GroupIdle

\* root.create_variation_yaml_file(variation, "s.yaml")
CreateVariationYaml ==
    LET
        \* what create_variation_yaml_file leaves behind: the file in the folder
        Swept(st, variation) ==
            /\ sweep' = variation
            /\ trace' = st.trace
            /\ error' = st.error
            /\ written' = IF Ok(st) THEN st.ret ELSE NoneV
            /\ folder' = IF Ok(st)
                         THEN [f \in DOMAIN folder \cup {sweep_yaml} |->
                                  IF f = sweep_yaml THEN safe_dump(st.ret) ELSE folder[f]]
                         ELSE folder
            /\ pc' = IF Ok(st) THEN "written" ELSE "refused"
    IN
        /\ pc = "built"
        /\ \E variation \in Sweeps(top) :
              Swept(create_variation_yaml_file([Fresh EXCEPT !.heap = heap, !.calls = calls],
                                               root, variation), variation)
        /\ UNCHANGED <<klass, params, modeler, heap, calls, root, base_dict, update,
                       merged, top, memVars, groupVars>>

\* type(root)(folder, "s.yaml", name, modeler)
Reload ==
    LET
        \* what the second constructor call leaves behind
        Reloaded(st) ==
            /\ heap' = st.heap
            /\ calls' = st.calls
            /\ trace' = st.trace
            /\ error' = st.error
            /\ root' = IF Ok(st) THEN st.ret ELSE 0
            /\ pc' = IF Ok(st) THEN "reloaded" ELSE "reload_failed"
    IN
        /\ pc = "written"
        /\ Reloaded(NewElement(Fresh, top, StrV(sweep_yaml), RootName(top), modeler, 0))
        /\ UNCHANGED <<klass, folder, params, modeler, base_dict, update, merged, top,
                       sweepVars, memVars, groupVars>>

SweepNext == Build \/ CreateVariationYaml \/ Reload

SpecSweep == SweepInit /\ [][SweepNext]_vars

-----------------------------------------------------------------------------
(* Properties of the sweep *)

\* the segments of the j-th path of the sweep, and its first segment
SweepSplit(j) == Split(sweep.m[j].k, dot)
Prefixes == {SweepSplit(j)[1] : j \in DOMAIN sweep.m}
PathsUnder(p) == {j \in DOMAIN sweep.m : SweepSplit(j)[1] = p}
\* the length of the sequences swept under the prefix p
LengthUnder(p) == Len(sweep.m[CHOOSE j \in PathsUnder(p) : TRUE].v.l)
IndexedKey(p, i) == p \o <<"_", "_">> \o FormatInt(i)
\* what a nested mapping holds at a path, and the paths of its leaves
RECURSIVE ValueAt(_, _)
ValueAt(d, path) ==
    IF path = <<>> THEN d
    ELSE IF IsMap(d) /\ HasKey(d, Head(path)) THEN ValueAt(GetItem(d, Head(path)), Tail(path))
    ELSE [t |-> "absent"]
RECURSIVE LeafPaths(_)
LeafPaths(d) ==
    IF ~IsMap(d) THEN {<<>>}
    ELSE UNION {{<<d.m[i].k>> \o rest : rest \in LeafPaths(d.m[i].v)} : i \in DOMAIN d.m}
\* the base document of the root without its variant-indexed keys
BaseKeys ==
    KeysOf(heap[root]._dict_params) \ IndexedKeys(heap[root]._dict_params)

GroupPrefixes ==
    {p \in Prefixes : IsAnnotated(top, p) /\ AnnType(top, p).t = "var"}

\* C14: building the root type again from the document written for a sweep
\* of dotted paths under Variation attributes succeeds, and for each such
\* attribute p swept with sequences of length n the group p has exactly n
\* variants; the configuration of variant i holds the i-th value at every
\* swept path and the value of the base slice of p at every other leaf.
C14_RoundTrip ==
    (/\ pc \in {"reloaded", "reload_failed"}
     /\ Prefixes = GroupPrefixes
     /\ \A j \in DOMAIN sweep.m : Len(SweepSplit(j)) >= 2) =>
        /\ pc = "reloaded"
        /\ \A p \in Prefixes :
              LET group_p == heap[GetItem(heap[root].attrs, p).id]
                  slice == GetItem(written, p)
              IN  /\ Len(group_p.variations) = LengthUnder(p)
                  /\ \A i \in 1..LengthUnder(p) :
                        LET conf == heap[group_p.variations[i]]._dict_params
                        IN  /\ \A j \in PathsUnder(p) :
                                  ValueAt(conf, Tail(SweepSplit(j))) = sweep.m[j].v.l[i]
                            /\ \A leaf \in LeafPaths(slice) \
                                      {Tail(SweepSplit(j)) : j \in PathsUnder(p)} :
                                  ValueAt(conf, leaf) = ValueAt(slice, leaf)

\* the node of the live tree at which the path stops resolving: the last
\* object reached before a segment that names no attribute of it
RECURSIVE StopNode(_, _, _)
StopNode(local_attr, splt, j) ==
    IF j > Len(splt) THEN [t |-> "absent"]
    ELSE IF getattr([heap |-> heap], local_attr, splt[j]) = NoneV THEN local_attr
    ELSE StopNode(getattr([heap |-> heap], local_attr, splt[j]), splt, j + 1)
Resolves(j) == StopNode(RefV(root), SweepSplit(j), 1).t = "absent"
\* the public attributes set on an element or a Variation
PublicAttrs(node) ==
    {k \in KeysOf(heap[node.id].attrs) : ~StartsWith(k, underscore)}
Messages == {trace[i].attrs : i \in {l \in DOMAIN trace : trace[l].ev = "message"}}

\* C15: a sweep with a path that does not resolve against the live tree is
\* refused, and when its first path stops resolving at an element or a
\* Variation the error lists the attribute names of that node: the list is
\* not empty and holds every public attribute set on the node.
C15_ErrorListsSiblings ==
    /\ (pc \in {"written", "refused"} /\ \E j \in DOMAIN sweep.m : ~Resolves(j)) =>
          pc = "refused"
    /\ (/\ pc = "refused"
        /\ ~Resolves(1)
        /\ StopNode(RefV(root), SweepSplit(1), 1).t = "ref") =>
          /\ error = "ValueError"
          /\ \E listed \in Messages :
                /\ listed # {}
                /\ PublicAttrs(StopNode(RefV(root), SweepSplit(1), 1)) \subseteq listed

-----------------------------------------------------------------------------
(* Specification of a Variation in use: members are appended to the group   *)
(* of a built element, the group is drawn, for loops run over it            *)

\* members appended, the indices they are built for, for loops started
MaxMembers == 3
MaxIndex == 2
MaxLoops == 2

\* Variation.__iter__: the Variation is its own iterator
Variation__iter__(st, self) == Return([st EXCEPT !.heap[self]._n_iter = 0], self)
\* Variation.__next__
Variation__next__(st, self) ==
    IF st.heap[self]._n_iter < st.heap[self]._len
    THEN Return([st EXCEPT !.heap[self]._n_iter = @ + 1],
                st.heap[self].variations[st.heap[self]._n_iter + 1])
    ELSE Raise(st, "StopIteration")
\* Variation.__len__
Variation__len__(st, self) == st.heap[self]._len

\* the state the objects are in, for a call from outside
Now == [Fresh EXCEPT !.heap = heap, !.calls = calls]

GroupInit ==
    /\ pc = "built"
    /\ klass = Klass({}, Classes)
    /\ top = "Arr"
    /\ params = ArrRootDoc
    /\ folder = <<>>
    /\ modeler \in Modelers
    /\ heap = NewElement(Fresh, top, params, RootName(top), modeler, 0).heap
    /\ calls = NewElement(Fresh, top, params, RootName(top), modeler, 0).calls
    /\ trace = <<>>
    /\ error = NoError
    /\ root = 1
    /\ group = GetItem(heap[root].attrs, k_pad).id
    /\ loops = <<>>
    /\ MergeIdle /\ SweepIdle /\ MemIdle

\* group.append(Pad(folder, {w: ...}, "arr_pad_<index>", modeler, parent=arr)):
\* the member of the group for the key pad__<index>, keys taken in any order
AppendMember ==
    LET
        \* what group.append(<member>) leaves behind
        Appended(st) ==
            /\ heap' = st.heap
            /\ calls' = st.calls
            /\ error' = st.error
    IN
        /\ pc = "built"
        /\ heap[group]._len < MaxMembers
        /\ \E index \in 0..MaxIndex :
              Appended(MemberBuilt(
                           NewElement(Now, AnnType(top, k_pad).cls,
                                      MapV(<<Item(k_w, Str1("z"))>>),
                                      VariationName(Now, root, k_pad, index), modeler, root),
                           group))
        /\ UNCHANGED <<pc, klass, folder, params, modeler, trace, root, base_dict, update,
                       merged, top, sweepVars, memVars, groupVars>>

\* group.to_draw = False
HideGroup ==
    /\ pc = "built"
    /\ to_draw(Now, group)
    /\ heap' = [heap EXCEPT ![group].attrs = SetItem(@, k_to_draw, BoolV(FALSE))]
    /\ UNCHANGED <<pc, klass, folder, params, modeler, calls, trace, error, root,
                   base_dict, update, merged, top, sweepVars, memVars, groupVars>>

\* group.draw(body)
GroupDraw ==
    /\ pc = "built"
    /\ Drawn(draw(Now, group, <<>>))
    /\ pc' = "drawn"
    /\ UNCHANGED <<klass, folder, params, modeler, heap, calls, root,
                   base_dict, update, merged, top, sweepVars, memVars, groupVars>>

\* for elm in group: a loop starts with iter(group)
StartLoop ==
    /\ pc \in {"built", "looping"}
    /\ Len(loops) < MaxLoops
    /\ heap' = Variation__iter__(Now, group).heap
    /\ loops' = Append(loops, [yielded |-> <<>>, done |-> FALSE])
    /\ pc' = "looping"
    /\ UNCHANGED <<klass, folder, params, modeler, calls, trace, error, root,
                   base_dict, update, merged, top, sweepVars, memVars, group>>

\* one turn of a loop that has not ended: the loops take their turns in any
\* order, as the body of one loop runs another
NextMember ==
    LET
        \* what next(it) leaves behind in the loop l: one more member for its body,
        \* or the end of the loop on StopIteration
        Advanced(st, l) ==
            /\ heap' = st.heap
            /\ loops' = [loops EXCEPT ![l] =
                            IF Ok(st) THEN [@ EXCEPT !.yielded = Append(@, st.ret)]
                            ELSE [@ EXCEPT !.done = TRUE]]
    IN
        /\ pc = "looping"
        /\ \E l \in DOMAIN loops :
              /\ ~loops[l].done
              /\ Advanced(Variation__next__(Now, group), l)
        /\ UNCHANGED <<pc, klass, folder, params, modeler, calls, trace, error, root,
                       base_dict, update, merged, top, sweepVars, memVars, group>>

GroupNext == AppendMember \/ HideGroup \/ GroupDraw \/ StartLoop \/ NextMember

SpecGroup == GroupInit /\ [][GroupNext]_vars

-----------------------------------------------------------------------------
(* Properties of a Variation in use *)

Members == heap[group].variations
\* the variant index a member was built for: the end of its name
MemberIndex(obj) ==
    ParseInt(Split(heap[obj]._name.s, underscore)[
                 Len(Split(heap[obj]._name.s, underscore))])
\* the members whose draw was called, in call order
MembersDrawn ==
    [i \in 1..Len(SelectSeq(trace, LAMBDA e : e.ev = "draw" /\ e.obj # group)) |->
        SelectSeq(trace, LAMBDA e : e.ev = "draw" /\ e.obj # group)[i].obj]

\* C16: the group holds one member per variant index, whatever the order
\* and number of the keys the members were appended for; Variation.draw with
\* to_draw true calls draw on every member once, in increasing order of the
\* variant index, and with to_draw false on no member.
C16_GroupDrawInIndexOrder ==
    /\ group # 0 =>
          \A a, b \in DOMAIN Members :
             a # b => MemberIndex(Members[a]) # MemberIndex(Members[b])
    /\ (pc = "drawn" /\ to_draw([heap |-> heap], group)) =>
          /\ {MembersDrawn[i] : i \in DOMAIN MembersDrawn}
                = {Members[i] : i \in DOMAIN Members}
          /\ \A i, j \in DOMAIN MembersDrawn :
                i < j => MemberIndex(MembersDrawn[i]) < MemberIndex(MembersDrawn[j])
    /\ (pc = "drawn" /\ ~to_draw([heap |-> heap], group)) => MembersDrawn = <<>>

\* C20: a for loop over a Variation that has ended has yielded each member
\* once, in list order, also when another loop over the same Variation
\* started or ran while it was running; len(group) is the number of members.
C20_LoopsIndependent ==
    group # 0 =>
        /\ \A l \in DOMAIN loops : loops[l].done => loops[l].yielded = Members
        /\ \A l \in DOMAIN loops : Len(loops[l].yielded) <= Len(Members)
        /\ Variation__len__([heap |-> heap], group) = Len(Members)

-----------------------------------------------------------------------------
(* Properties of the tree as a whole *)

\* the elements that hold obj as a child: a public attribute of theirs is obj
Holders(obj) ==
    {h \in Elements :
        \E i \in DOMAIN heap[h].attrs.m :
            /\ IsChild([heap |-> heap], heap[h].attrs.m[i])
            /\ heap[h].attrs.m[i].v.id = obj}

\* C17: in a constructed tree every element is a child of at most one
\* element, the one recorded as its parent; and a draw from the root in which
\* the elements that have children use the default _draw calls the _draw of
\* each element at most once.
C17_ChildrenFormTree ==
    /\ Constructed =>
          \A obj \in Elements :
             /\ Cardinality(Holders(obj)) <= 1
             /\ Holders(obj) \subseteq {heap[obj]._parent}
    /\ (/\ pc = "drawn"
        /\ \A cls \in {"Chip", "Qubit", "Jct"} : ~klass[cls].defines__draw) =>
          \A obj \in Elements :
             Cardinality({i \in Events({"_draw"}) : trace[i].obj = obj}) <= 1

-----------------------------------------------------------------------------
(* Specification of the construction of an element with list attributes:   *)
(* Vec has a vector pos, two lists of vectors pts and dims and a list of    *)
(* numbers cnt                                                              *)

\* vectors in a list of vectors
MaxVectors == 2

VectorLists ==
    {ListV(l) : l \in UNION {[1..n -> {ListV(<<Str1("e"), Str1("f")>>),
                                       ListV(<<Str1("g"), Str1("h"), Str1("i"),
                                               Str1("j")>>)}] :
                                n \in 0..MaxVectors}}
VecDocs ==
    LET
        \* vectors of two, three and four components
        Vectors ==
            {ListV(<<Str1("a"), Str1("b")>>), ListV(<<Str1("a"), Str1("b"), Str1("c")>>),
             ListV(<<Str1("a"), Str1("b"), Str1("c"), Str1("d")>>)}
    IN
        {MapV(<<Item(k_pos, pos), Item(k_pts, pts), Item(k_dims, dims),
                Item(k_cnt, ListV(<<IntV(1), IntV(2)>>)), Item(k_w, Str1("a"))>>) :
            pos \in Vectors, pts \in VectorLists, dims \in VectorLists}

ListInit ==
    /\ pc = "new"
    /\ klass = [cls \in {"Vec"} |-> [redefines_draw |-> FALSE, defines__draw |-> TRUE]]
    /\ top = "Vec"
    /\ params \in VecDocs
    /\ folder = <<>>
    /\ modeler \in Modelers
    /\ heap = <<>> /\ calls = <<>> /\ trace = <<>> /\ error = NoError /\ root = 0
    /\ MergeIdle /\ SweepIdle /\ MemIdle /\ GroupIdle

ListNext == Build

SpecList == ListInit /\ [][ListNext]_vars

-----------------------------------------------------------------------------
(* Properties of the list attributes and of the variable names *)

\* the vectors of the list attribute key of obj, by their index within the
\* attribute: the attribute itself at 0 when it is flat
VectorsOf(obj, key) ==
    IF AnnType(heap[obj].cls, key).of.t = "list"
    THEN [i \in 0..(Len(GetItem(Slice(obj), key).l) - 1) |->
             GetItem(Slice(obj), key).l[i + 1]]
    ELSE [i \in {0} |-> GetItem(Slice(obj), key)]
\* the label of component n (from 1) of a vector
LabelOf(vector, n) ==
    IF Len(vector.l) <= 3 THEN <<(<<"x">>), (<<"y">>), (<<"z">>)>>[n]
    ELSE FormatInt(n - 1)
\* the list attributes of strings that the slice of obj holds
StrListKeys(obj) ==
    {a.k : a \in {d \in Declared(obj) :
                     /\ d.ty.t = "list"
                     /\ HasKey(Slice(obj), d.k)
                     /\ (IF d.ty.of.t = "list" THEN d.ty.of.of ELSE d.ty.of) = StrT}}

\* C18: with a modeler whose mode is neither gds nor None, every component
\* of a list attribute A of an element N, flat or nested, is registered by
\* exactly one set_variable call, named N_A_i_label: i the index of the
\* component's vector within A (0 for a flat vector), label x, y, z for a
\* vector of at most three components and the position otherwise.
C18_ComponentNames ==
    (pc = "built" /\ modeler = ModelerV(m_hfss)) =>
        \A obj \in Elements : \A key \in StrListKeys(obj) :
           \A i \in DOMAIN VectorsOf(obj, key) :
              \A n \in DOMAIN VectorsOf(obj, key)[i].l :
                 Cardinality(
                    {c \in CallsNamed(NameOf(obj, key) \o underscore \o FormatInt(i)
                                         \o underscore
                                         \o LabelOf(VectorsOf(obj, key)[i], n)) :
                        calls[c].value = VectorsOf(obj, key)[i].l[n]}) = 1

\* C19: over the construction of a tree no two set_variable calls use the
\* same variable name.
C19_NamesDistinct ==
    \A c, d \in DOMAIN calls : c # d => calls[c].name # calls[d].name

====
